---- MODULE Spec2Model ----
(***************************************************************************)
(* TRACKS: an audio file is analysed into a timeline of timestamped        *)
(* events (analyze), which is then replayed in real time over UDP          *)
(* (Emitter::run, Transport::send).  This module models                    *)
(*   - the event catalog and parse_event_filter      (src/src/events.cpp), *)
(*   - the timeline builder analyze()         (src/unnamed/part_004),      *)
(*   - main, Emitter::run and Transport::send (src/src/events.h,           *)
(*     src/unnamed/part_006, src/src/transport.cpp).                       *)
(*                                                                         *)
(* Times are counted in sample periods (seconds * sample_rate), so that    *)
(* frame_to_time(i) = i * hop_size exactly and the duration is the number  *)
(* of samples the loader produced.  The emitter's clock counts sample      *)
(* periods too; 100 ms are sample_rate / 10 of them.                       *)
(***************************************************************************)
EXTENDS Integers, Sequences, FiniteSets, TLC

(***************************************************************************)
(* Bounds of the model.                                                    *)
(***************************************************************************)
\* most tokens in the first CSV string handed to parse_event_filter
MaxTokens == 3

VARIABLES
    \* --- parse_event_filter harness ---
    csvA,           \* first CSV string (a sequence of characters)
    csvB,           \* second CSV string
    resA,           \* parse_event_filter(csvA): [filter, warnings]
    resB,           \* parse_event_filter(csvB)
    fpc,            \* position of the harness
    \* --- analyze() ---
    apc,            \* position inside analyze()
    cfg,            \* the Config of the run
    pool,           \* essentia::Pool: key -> array
    duration,       \* measured duration, in sample periods
    timeline,       \* the Timeline under construction / returned
    network,        \* operators created and connections made by the passes
    \* --- main, Emitter::run, Transport ---
    argv,           \* the command line and the files it names
    pc,             \* position inside main / Emitter::run
    now,            \* steady_clock::now(), in sample periods
    g_interrupted,  \* the global interruption flag
    sent,           \* datagrams sent to the multicast endpoint, in order
    unicast_sent,   \* datagrams sent to the unicast endpoint, in order
    socket_,        \* Transport::socket_: "none" until constructed
    unicast_enabled_,   \* Transport::unicast_enabled_
    unicast_endpoint_,  \* address of Transport::unicast_endpoint_, "" if unset
    cerr,           \* the lines Transport wrote to std::cerr
    it,             \* index of the timeline event of the current iteration
    wall_start,     \* playback baseline
    prepare_end,    \* end of the pre-roll countdown
    target,         \* wall-clock target of the current event
    exit_code,      \* exit status of main (-1 while running)
    flag_set_at,    \* history: where main was when the flag was set, and the
                    \* sleeps finished since
    \* --- analyze(): the heartbeat loop taken step by step ---
    position_t,     \* the loop variable t of the track.position loop
    \* --- winplay: main ---
    state,          \* State: WAITING, PREPARED, PLAYING, STOPPED
    g_shutdown,     \* the global shutdown flag of ctrl_handler
    player,         \* AudioPlayer: device_initialized_, started, finished_
    wpc,            \* position inside main of winplay
    handled,        \* history: the envelopes handled, each with the state
                    \* it was received in and what it did to the player
    shutdown_polls  \* history: receive() calls returned since the flag was set

filterVars == <<csvA, csvB, resA, resB, fpc>>
analyzeVars == <<apc, cfg, pool, duration, timeline, network>>
transportVars ==
    <<unicast_sent, socket_, unicast_enabled_, unicast_endpoint_, cerr>>
mainVars == <<argv, pc, now, g_interrupted, sent, it, wall_start, prepare_end,
              target, exit_code, flag_set_at, unicast_sent, socket_,
              unicast_enabled_, unicast_endpoint_, cerr>>
winplayVars == <<state, g_shutdown, player, wpc, handled, shutdown_polls>>
vars == <<csvA, csvB, resA, resB, fpc, apc, cfg, pool, duration, timeline,
          network,
          argv, pc, now, g_interrupted, sent, it, wall_start, prepare_end,
          target, exit_code, flag_set_at, unicast_sent, socket_,
          unicast_enabled_, unicast_endpoint_, cerr, position_t, state,
          g_shutdown, player, wpc, handled, shutdown_polls>>

(***************************************************************************)
(* Event catalog (events.h, events.cpp).                                   *)
(***************************************************************************)
\* the {type, name} table; a name is the sequence of its characters
all_entries ==
    <<
       [type |-> "TRACK_START", name |-> <<"t","r","a","c","k",".","s","t","a","r","t">>],
       [type |-> "TRACK_END", name |-> <<"t","r","a","c","k",".","e","n","d">>],
       [type |-> "TRACK_POSITION", name |-> <<"t","r","a","c","k",".","p","o","s","i","t","i","o","n">>],
       [type |-> "TRACK_ABORT", name |-> <<"t","r","a","c","k",".","a","b","o","r","t">>],
       [type |-> "BEAT", name |-> <<"b","e","a","t">>],
       [type |-> "TEMPO_CHANGE", name |-> <<"t","e","m","p","o",".","c","h","a","n","g","e">>],
       [type |-> "DOWNBEAT", name |-> <<"d","o","w","n","b","e","a","t">>],
       [type |-> "ONSET", name |-> <<"o","n","s","e","t">>],
       [type |-> "ONSET_RATE", name |-> <<"o","n","s","e","t",".","r","a","t","e">>],
       [type |-> "NOVELTY", name |-> <<"n","o","v","e","l","t","y">>],
       [type |-> "KEY_CHANGE", name |-> <<"k","e","y",".","c","h","a","n","g","e">>],
       [type |-> "CHORD_CHANGE", name |-> <<"c","h","o","r","d",".","c","h","a","n","g","e">>],
       [type |-> "CHROMA", name |-> <<"c","h","r","o","m","a">>],
       [type |-> "TUNING", name |-> <<"t","u","n","i","n","g">>],
       [type |-> "DISSONANCE", name |-> <<"d","i","s","s","o","n","a","n","c","e">>],
       [type |-> "INHARMONICITY", name |-> <<"i","n","h","a","r","m","o","n","i","c","i","t","y">>],
       [type |-> "PITCH", name |-> <<"p","i","t","c","h">>],
       [type |-> "PITCH_CHANGE", name |-> <<"p","i","t","c","h",".","c","h","a","n","g","e">>],
       [type |-> "MELODY", name |-> <<"m","e","l","o","d","y">>],
       [type |-> "LOUDNESS", name |-> <<"l","o","u","d","n","e","s","s">>],
       [type |-> "LOUDNESS_PEAK", name |-> <<"l","o","u","d","n","e","s","s",".","p","e","a","k">>],
       [type |-> "ENERGY", name |-> <<"e","n","e","r","g","y">>],
       [type |-> "DYNAMIC_CHANGE", name |-> <<"d","y","n","a","m","i","c",".","c","h","a","n","g","e">>],
       [type |-> "SILENCE_START", name |-> <<"s","i","l","e","n","c","e",".","s","t","a","r","t">>],
       [type |-> "SILENCE_END", name |-> <<"s","i","l","e","n","c","e",".","e","n","d">>],
       [type |-> "GAP", name |-> <<"g","a","p">>],
       [type |-> "SPECTRAL_CENTROID", name |-> <<"s","p","e","c","t","r","a","l",".","c","e","n","t","r","o","i","d">>],
       [type |-> "SPECTRAL_FLUX", name |-> <<"s","p","e","c","t","r","a","l",".","f","l","u","x">>],
       [type |-> "SPECTRAL_COMPLEXITY", name |-> <<"s","p","e","c","t","r","a","l",".","c","o","m","p","l","e","x","i","t","y">>],
       [type |-> "SPECTRAL_CONTRAST", name |-> <<"s","p","e","c","t","r","a","l",".","c","o","n","t","r","a","s","t">>],
       [type |-> "SPECTRAL_ROLLOFF", name |-> <<"s","p","e","c","t","r","a","l",".","r","o","l","l","o","f","f">>],
       [type |-> "MFCC", name |-> <<"m","f","c","c">>],
       [type |-> "TIMBRE_CHANGE", name |-> <<"t","i","m","b","r","e",".","c","h","a","n","g","e">>],
       [type |-> "BANDS_MEL", name |-> <<"b","a","n","d","s",".","m","e","l">>],
       [type |-> "BANDS_BARK", name |-> <<"b","a","n","d","s",".","b","a","r","k">>],
       [type |-> "BANDS_ERB", name |-> <<"b","a","n","d","s",".","e","r","b">>],
       [type |-> "HFC", name |-> <<"h","f","c">>],
       [type |-> "SEGMENT_BOUNDARY", name |-> <<"s","e","g","m","e","n","t",".","b","o","u","n","d","a","r","y">>],
       [type |-> "FADE_IN", name |-> <<"f","a","d","e",".","i","n">>],
       [type |-> "FADE_OUT", name |-> <<"f","a","d","e",".","o","u","t">>],
       [type |-> "CLICK", name |-> <<"c","l","i","c","k">>],
       [type |-> "DISCONTINUITY", name |-> <<"d","i","s","c","o","n","t","i","n","u","i","t","y">>],
       [type |-> "NOISE_BURST", name |-> <<"n","o","i","s","e",".","b","u","r","s","t">>],
       [type |-> "SATURATION", name |-> <<"s","a","t","u","r","a","t","i","o","n">>],
       [type |-> "HUM", name |-> <<"h","u","m">>],
       [type |-> "ENVELOPE", name |-> <<"e","n","v","e","l","o","p","e">>],
       [type |-> "ATTACK", name |-> <<"a","t","t","a","c","k">>],
       [type |-> "DECAY", name |-> <<"d","e","c","a","y">>]
    >>

EventType == {all_entries[i].type : i \in DOMAIN all_entries}

\* name -> type, built by map[e.name] = e.type over all_entries
event_name_map ==
    [n \in {all_entries[i].name : i \in DOMAIN all_entries} |->
        all_entries[CHOOSE i \in DOMAIN all_entries :
                        /\ all_entries[i].name = n
                        /\ \A j \in DOMAIN all_entries :
                               all_entries[j].name = n => j <= i].type]

is_transport_event(et) ==
    \/ et = "TRACK_START"
    \/ et = "TRACK_END"
    \/ et = "TRACK_POSITION"
    \/ et = "TRACK_ABORT"

default_events == {"BEAT", "ONSET"}

tier1_events ==
    {"BEAT", "ONSET", "SILENCE_START", "SILENCE_END", "GAP",
     "LOUDNESS", "LOUDNESS_PEAK", "ENERGY", "DYNAMIC_CHANGE"}

all_events ==
    {all_entries[i].type : i \in {j \in DOMAIN all_entries :
                                     ~is_transport_event(all_entries[j].type)}}

(***************************************************************************)
(* parse_event_filter (events.cpp).                                        *)
(***************************************************************************)
\* the tokens std::getline(stream, token, ',') yields, in order: the pieces
\* between commas; a final piece is yielded only if a character was extracted
RECURSIVE getline_from(_, _, _)
getline_from(csv, i, cur) ==
    IF i > Len(csv)
    THEN (IF cur = <<>> THEN <<>> ELSE <<cur>>)
    ELSE IF csv[i] = ","
         THEN <<cur>> \o getline_from(csv, i + 1, <<>>)
         ELSE getline_from(csv, i + 1, Append(cur, csv[i]))

getline_tokens(csv) == getline_from(csv, 1, <<>>)

IsBlank(c) == c \in {" ", "\t"}

\* std::string::npos
npos == 0

find_first_not_of(token) ==
    IF \E i \in DOMAIN token : ~IsBlank(token[i])
    THEN CHOOSE i \in DOMAIN token :
            /\ ~IsBlank(token[i])
            /\ \A j \in DOMAIN token : ~IsBlank(token[j]) => i <= j
    ELSE npos

find_last_not_of(token) ==
    IF \E i \in DOMAIN token : ~IsBlank(token[i])
    THEN CHOOSE i \in DOMAIN token :
            /\ ~IsBlank(token[i])
            /\ \A j \in DOMAIN token : ~IsBlank(token[j]) => j <= i
    ELSE npos

\* token.substr(start, end - start + 1)
trim(token) == SubSeq(token, find_first_not_of(token), find_last_not_of(token))

\* a faulty variant of filter_insert: assignment instead of insertion
filter_assign(filter, et) == {et}

\* filter.insert(it->second) on a std::set<EventType>
filter_insert(filter, et) == filter \cup {et}

\* a faulty variant of parse_token: an unknown name empties the filter
parse_token_reset(acc, token) ==
    IF find_first_not_of(token) = npos
    THEN acc
    ELSE LET t == trim(token) IN
         IF t \notin DOMAIN event_name_map
         THEN [filter |-> {}, warnings |-> Append(acc.warnings, "unknown")]
         ELSE IF is_transport_event(event_name_map[t])
              THEN [acc EXCEPT !.warnings = Append(@, "transport")]
              ELSE [acc EXCEPT !.filter = filter_insert(@, event_name_map[t])]

\* one iteration of the while loop: acc is [filter, warnings]
parse_token(acc, token) ==
    IF find_first_not_of(token) = npos
    THEN acc
    ELSE LET t == trim(token) IN
         IF t \notin DOMAIN event_name_map
         THEN [acc EXCEPT !.warnings = Append(@, "unknown")]
         ELSE IF is_transport_event(event_name_map[t])
              THEN [acc EXCEPT !.warnings = Append(@, "transport")]
              ELSE [acc EXCEPT !.filter = filter_insert(@, event_name_map[t])]

RECURSIVE parse_loop(_, _, _)
parse_loop(tokens, i, acc) ==
    IF i > Len(tokens)
    THEN acc
    ELSE parse_loop(tokens, i + 1, parse_token(acc, tokens[i]))

parse_event_filter(csv) ==
    parse_loop(getline_tokens(csv), 1, [filter |-> {}, warnings |-> <<>>])

(***************************************************************************)
(* analyze() and its builders (analyzer.cpp, in src/unnamed/part_004).     *)
(***************************************************************************)
\* ::tracks::Envelope: a timestamp and one payload variant; val holds the
\* payload's numbers, reason the text of a TrackAbort
Envelope(type, ts, val) ==
    [type |-> type, timestamp |-> ts, val |-> val, reason |-> ""]

\* struct TimelineEvent {timestamp, serialized}; SerializeAsString is
\* injective, so the serialized form stands for the envelope itself
TimelineEvent(ts, env) == [timestamp |-> ts, serialized |-> env]

\* static_cast<double>(frame_idx) * hop_size / sample_rate, in sample periods
frame_to_time(frame_idx, hop_size) == frame_idx * hop_size

add_envelope(tl, ts, env) == Append(tl, TimelineEvent(ts, env))

needs_any(filter, types) == \E t \in types : t \in filter

\* pool.contains<T>(key)
contains(p, key) == key \in DOMAIN p

\* PC(pool, key): every token the output produces is appended under key, so
\* a key exists only if at least one token was produced
pool_store(p, key, values) ==
    IF values = <<>> THEN p ELSE (key :> values) @@ p

\* ---- point events ----

build_beat_events(p, filter, tl) ==
    IF "BEAT" \notin filter THEN tl
    ELSE IF ~contains(p, "rhythm.ticks") THEN tl
    ELSE LET ticks == p["rhythm.ticks"]
             confidences == IF contains(p, "rhythm.confidence")
                            THEN p["rhythm.confidence"] ELSE <<>>
         IN  tl \o [i \in 1..Len(ticks) |->
                      TimelineEvent(ticks[i],
                          Envelope("BEAT", ticks[i],
                                   IF i <= Len(confidences)
                                   THEN <<confidences[i]>> ELSE <<>>))]

build_onset_events(p, filter, tl) ==
    IF "ONSET" \notin filter THEN tl
    ELSE IF ~contains(p, "rhythm.onsetTimes") THEN tl
    ELSE LET onsets == p["rhythm.onsetTimes"]
         IN  tl \o [i \in 1..Len(onsets) |->
                      TimelineEvent(onsets[i], Envelope("ONSET", onsets[i], <<1>>))]

\* ---- silence ----

\* a faulty variant of exceeds_min_gap: a gap of 0.05 s counts
exceeds_min_gap_inclusive(t, c) == t * 100 >= 5 * c.sample_rate

\* startTime > 0.05 (seconds), with t in sample periods
exceeds_min_gap(t, c) == t * 100 > 5 * c.sample_rate

\* a faulty variant of silence_gap_events: the gap event is not gated by its type
silence_gap_events_ungated(filter, t_start, t_end, t_gap, d) ==
    (IF "SILENCE_START" \in filter
     THEN <<TimelineEvent(t_start, Envelope("SILENCE_START", t_start, <<>>))>>
     ELSE <<>>)
    \o (IF "SILENCE_END" \in filter
        THEN <<TimelineEvent(t_end, Envelope("SILENCE_END", t_end, <<>>))>>
        ELSE <<>>)
    \o <<TimelineEvent(t_gap, Envelope("GAP", t_gap, <<d>>))>>

\* the three gated add_envelope calls of one silent region
silence_gap_events(filter, t_start, t_end, t_gap, d) ==
    (IF "SILENCE_START" \in filter
     THEN <<TimelineEvent(t_start, Envelope("SILENCE_START", t_start, <<>>))>>
     ELSE <<>>)
    \o (IF "SILENCE_END" \in filter
        THEN <<TimelineEvent(t_end, Envelope("SILENCE_END", t_end, <<>>))>>
        ELSE <<>>)
    \o (IF "GAP" \in filter
        THEN <<TimelineEvent(t_gap, Envelope("GAP", t_gap, <<d>>))>>
        ELSE <<>>)

build_silence_events(p, filter, c, dur, tl) ==
    IF ~needs_any(filter, {"SILENCE_START", "SILENCE_END", "GAP"}) THEN tl
    ELSE IF ~contains(p, "silence.startFrame") \/ ~contains(p, "silence.stopFrame")
    THEN tl
    ELSE LET starts == p["silence.startFrame"]
             stops  == p["silence.stopFrame"]
         IN  IF starts = <<>> \/ stops = <<>> THEN tl
             ELSE LET startFrame == starts[Len(starts)]
                      stopFrame  == stops[Len(stops)]
                      startTime  == frame_to_time(startFrame, c.hop_size)
                      stopTime   == frame_to_time(stopFrame, c.hop_size)
                  IN  tl
                      \o (IF startFrame > 0 /\ exceeds_min_gap(startTime, c)
                          THEN silence_gap_events(filter, 0, startTime, 0, startTime)
                          ELSE <<>>)
                      \o (IF exceeds_min_gap(dur - stopTime, c)
                          THEN silence_gap_events(filter, stopTime, dur, stopTime,
                                                  dur - stopTime)
                          ELSE <<>>)

\* ---- throttled continuous sampling ----

\* a faulty variant of throttle_due: every frame is emitted
throttle_due_always(t, last_emit, interval) == TRUE

\* (t - last_emit) >= interval
throttle_due(t, last_emit, interval) == (t - last_emit) >= interval

\* the frame loop of build_throttled_real_events / _vector_events /
\* build_energy_events, from frame i (0-based) on
RECURSIVE throttled_loop(_, _, _, _, _, _)
throttled_loop(values, c, dur, type, i, last_emit) ==
    IF i >= Len(values) THEN <<>>
    ELSE LET t == frame_to_time(i, c.hop_size) IN
         IF t > dur THEN <<>>
         ELSE IF throttle_due(t, last_emit, c.continuous_interval)
              THEN <<TimelineEvent(t, Envelope(type, t, values[i + 1]))>>
                   \o throttled_loop(values, c, dur, type, i + 1, t)
              ELSE throttled_loop(values, c, dur, type, i + 1, last_emit)

\* build_throttled_real_events and build_throttled_vector_events: the pool
\* array under pool_key holds one payload (a sequence of numbers) per frame
build_throttled_events(p, pool_key, c, dur, tl, type) ==
    IF ~contains(p, pool_key) THEN tl
    ELSE IF p[pool_key] = <<>> THEN tl
    ELSE tl \o throttled_loop(p[pool_key], c, dur, type, 0, -c.continuous_interval)

build_energy_events(p, filter, c, dur, tl) ==
    IF "ENERGY" \notin filter THEN tl
    ELSE build_throttled_events(p, "energy.values", c, dur, tl, "ENERGY")

\* ---- loudness, loudness peak, dynamic change ----

SeqMax(values) ==
    CHOOSE m \in {values[i] : i \in DOMAIN values} :
        \A i \in DOMAIN values : values[i] <= m

\* the events of frame i (0-based) of build_loudness_events
loudness_frame_events(values, filter, c, i, t, last_emit_time) ==
    LET v == values[i + 1]
        max_loudness == SeqMax(values)
    IN  (IF "LOUDNESS" \in filter
            /\ throttle_due(t, last_emit_time, c.continuous_interval)
         THEN <<TimelineEvent(t, Envelope("LOUDNESS", t, <<v>>))>>
         ELSE <<>>)
        \o (IF "LOUDNESS_PEAK" \in filter /\ i > 0 /\ i < Len(values) - 1
               /\ v > values[i] /\ v > values[i + 2]
               /\ 10 * v >= 9 * max_loudness
            THEN <<TimelineEvent(t, Envelope("LOUDNESS_PEAK", t, <<v>>))>>
            ELSE <<>>)
        \o (IF "DYNAMIC_CHANGE" \in filter /\ i > 0
            THEN LET diff == IF v >= values[i] THEN v - values[i]
                                               ELSE values[i] - v
                 IN  IF max_loudness > 0 /\ 10 * diff > 3 * max_loudness
                     THEN <<TimelineEvent(t, Envelope("DYNAMIC_CHANGE", t, <<diff>>))>>
                     ELSE <<>>
            ELSE <<>>)

RECURSIVE loudness_loop(_, _, _, _, _, _)
loudness_loop(values, filter, c, dur, i, last_emit_time) ==
    IF i >= Len(values) THEN <<>>
    ELSE LET t == frame_to_time(i, c.hop_size) IN
         IF t > dur THEN <<>>
         ELSE loudness_frame_events(values, filter, c, i, t, last_emit_time)
              \o loudness_loop(values, filter, c, dur, i + 1,
                    IF "LOUDNESS" \in filter
                       /\ throttle_due(t, last_emit_time, c.continuous_interval)
                    THEN t ELSE last_emit_time)

build_loudness_events(p, filter, c, dur, tl) ==
    IF ~needs_any(filter, {"LOUDNESS", "LOUDNESS_PEAK", "DYNAMIC_CHANGE"}) THEN tl
    ELSE IF ~contains(p, "loudness.values") THEN tl
    ELSE IF p["loudness.values"] = <<>> THEN tl
    ELSE tl \o loudness_loop(p["loudness.values"], filter, c, dur, 0,
                             -c.continuous_interval)

\* ---- spectral, bands ----

\* one gated call of build_throttled_real_events / _vector_events
gated_throttled(p, filter, c, dur, tl, type, pool_key) ==
    IF type \in filter
    THEN build_throttled_events(p, pool_key, c, dur, tl, type)
    ELSE tl

\* squared Euclidean distance of two cepstral vectors over the common length
RECURSIVE dist2(_, _, _)
dist2(a, b, j) ==
    IF j > Len(a) \/ j > Len(b) THEN 0
    ELSE (a[j] - b[j]) * (a[j] - b[j]) + dist2(a, b, j + 1)

\* dist > 50.0
TimbreThreshold == 50

RECURSIVE timbre_loop(_, _, _, _)
timbre_loop(mfccs, c, dur, i) ==
    IF i >= Len(mfccs) THEN <<>>
    ELSE LET t == frame_to_time(i, c.hop_size) IN
         IF t > dur THEN <<>>
         ELSE (IF dist2(mfccs[i + 1], mfccs[i], 1) > TimbreThreshold * TimbreThreshold
               THEN <<TimelineEvent(t, Envelope("TIMBRE_CHANGE", t,
                                               <<dist2(mfccs[i + 1], mfccs[i], 1)>>))>>
               ELSE <<>>)
              \o timbre_loop(mfccs, c, dur, i + 1)

build_spectral_events(p, filter, c, dur, tl) ==
    LET t1 == gated_throttled(p, filter, c, dur, tl, "SPECTRAL_CENTROID", "spectral.centroid")
        t2 == gated_throttled(p, filter, c, dur, t1, "SPECTRAL_FLUX", "spectral.flux")
        t3 == gated_throttled(p, filter, c, dur, t2, "SPECTRAL_COMPLEXITY", "spectral.complexity")
        t4 == gated_throttled(p, filter, c, dur, t3, "SPECTRAL_CONTRAST", "spectral.contrast")
        t5 == gated_throttled(p, filter, c, dur, t4, "SPECTRAL_ROLLOFF", "spectral.rolloff")
        t6 == gated_throttled(p, filter, c, dur, t5, "HFC", "spectral.hfc")
        t7 == gated_throttled(p, filter, c, dur, t6, "MFCC", "spectral.mfcc")
    IN  IF "TIMBRE_CHANGE" \in filter /\ contains(p, "spectral.mfcc")
        THEN t7 \o timbre_loop(p["spectral.mfcc"], c, dur, 1)
        ELSE t7

build_band_events(p, filter, c, dur, tl) ==
    LET t1 == gated_throttled(p, filter, c, dur, tl, "BANDS_MEL", "bands.mel")
        t2 == gated_throttled(p, filter, c, dur, t1, "BANDS_BARK", "bands.bark")
    IN  gated_throttled(p, filter, c, dur, t2, "BANDS_ERB", "bands.erb")

\* ---- tonal ----

\* the single key.change event at t = 0
key_change_events(p, filter) ==
    IF "KEY_CHANGE" \in filter
       /\ contains(p, "tonal.key") /\ contains(p, "tonal.scale")
    THEN LET keys == p["tonal.key"]
             scales == p["tonal.scale"]
             strengths == IF contains(p, "tonal.keyStrength")
                          THEN p["tonal.keyStrength"] ELSE <<>>
         IN  IF keys # <<>>
             THEN <<TimelineEvent(0, Envelope("KEY_CHANGE", 0,
                       << keys[Len(keys)],
                          IF scales = <<>> THEN 0 ELSE scales[Len(scales)],
                          IF strengths = <<>> THEN 0 ELSE strengths[Len(strengths)] >>))>>
             ELSE <<>>
    ELSE <<>>

\* a faulty variant of chord_loop: prev_chord is never updated, so every
\* window with a label is reported
RECURSIVE chord_loop_every_window(_, _, _, _, _, _)
chord_loop_every_window(chords, strengths, c, dur, i, prev_chord) ==
    IF i >= Len(chords) \/ frame_to_time(i, c.hop_size) > dur THEN <<>>
    ELSE LET t == frame_to_time(i, c.hop_size) IN
         <<TimelineEvent(t, Envelope("CHORD_CHANGE", t,
                                     <<chords[i + 1], strengths[i + 1]>>))>>
             \o chord_loop_every_window(chords, strengths, c, dur, i + 1,
                                        prev_chord)

\* the chord loop from window i (0-based) on; label 0 is the empty string
RECURSIVE chord_loop(_, _, _, _, _, _)
chord_loop(chords, strengths, c, dur, i, prev_chord) ==
    IF i >= Len(chords) THEN <<>>
    ELSE IF chords[i + 1] # prev_chord
         THEN LET t == frame_to_time(i, c.hop_size) IN
              IF t > dur THEN <<>>
              ELSE <<TimelineEvent(t, Envelope("CHORD_CHANGE", t,
                         IF i < Len(strengths)
                         THEN <<chords[i + 1], strengths[i + 1]>>
                         ELSE <<chords[i + 1]>>))>>
                   \o chord_loop(chords, strengths, c, dur, i + 1, chords[i + 1])
         ELSE chord_loop(chords, strengths, c, dur, i + 1, prev_chord)

chord_change_events(p, filter, c, dur) ==
    IF "CHORD_CHANGE" \in filter /\ contains(p, "tonal.chords")
    THEN chord_loop(p["tonal.chords"],
                    IF contains(p, "tonal.chordStrength")
                    THEN p["tonal.chordStrength"] ELSE <<>>,
                    c, dur, 0, 0)
    ELSE <<>>

build_tonal_events(p, filter, c, dur, tl) ==
    LET t1 == gated_throttled(p, filter, c, dur, tl, "CHROMA", "tonal.hpcp")
        t2 == t1 \o key_change_events(p, filter)
        t3 == t2 \o chord_change_events(p, filter, c, dur)
        t4 == gated_throttled(p, filter, c, dur, t3, "DISSONANCE", "tonal.dissonance")
    IN  gated_throttled(p, filter, c, dur, t4, "INHARMONICITY", "tonal.inharmonicity")

\* ---- pitch ----
\* confidences are in tenths: conf > 0.3f is conf > 3, conf > 0.5f is conf > 5

\* the events of frame i (0-based) of build_pitch_events
pitch_frame_events(filter, c, i, t, freq, conf, last_emit, prev_pitch) ==
    (IF "PITCH" \in filter /\ throttle_due(t, last_emit, c.continuous_interval)
        /\ conf > 3
     THEN <<TimelineEvent(t, Envelope("PITCH", t, <<freq, conf>>))>>
     ELSE <<>>)
    \o (IF "PITCH_CHANGE" \in filter /\ i > 0 /\ conf > 5
           /\ prev_pitch > 0 /\ freq > 0
           /\ (100 * freq > 106 * prev_pitch \/ 100 * freq < 94 * prev_pitch)
        THEN <<TimelineEvent(t, Envelope("PITCH_CHANGE", t, <<prev_pitch, freq>>))>>
        ELSE <<>>)

RECURSIVE pitch_loop(_, _, _, _, _, _, _, _)
pitch_loop(pitches, confs, filter, c, dur, i, last_emit, prev_pitch) ==
    IF i >= Len(pitches) THEN <<>>
    ELSE LET t == frame_to_time(i, c.hop_size) IN
         IF t > dur THEN <<>>
         ELSE LET freq == pitches[i + 1]
                  conf == IF i < Len(confs) THEN confs[i + 1] ELSE 0
              IN  pitch_frame_events(filter, c, i, t, freq, conf, last_emit, prev_pitch)
                  \o pitch_loop(pitches, confs, filter, c, dur, i + 1,
                        IF "PITCH" \in filter
                           /\ throttle_due(t, last_emit, c.continuous_interval)
                           /\ conf > 3
                        THEN t ELSE last_emit,
                        IF conf > 3 THEN freq ELSE prev_pitch)

build_pitch_events(p, filter, c, dur, tl) ==
    IF "PITCH" \notin filter /\ "PITCH_CHANGE" \notin filter THEN tl
    ELSE IF ~contains(p, "pitch.values") THEN tl
    ELSE tl \o pitch_loop(p["pitch.values"],
                          IF contains(p, "pitch.confidence")
                          THEN p["pitch.confidence"] ELSE <<>>,
                          filter, c, dur, 0, -c.continuous_interval, 0)

\* ---- melody ----

RECURSIVE melody_loop(_, _, _, _, _)
melody_loop(pitches, c, dur, i, last_emit) ==
    IF i >= Len(pitches) THEN <<>>
    ELSE LET t == frame_to_time(i, c.hop_size) IN
         IF t > dur THEN <<>>
         ELSE IF pitches[i + 1] <= 0
              THEN melody_loop(pitches, c, dur, i + 1, last_emit)
              ELSE IF throttle_due(t, last_emit, c.continuous_interval)
                   THEN <<TimelineEvent(t, Envelope("MELODY", t, <<pitches[i + 1]>>))>>
                        \o melody_loop(pitches, c, dur, i + 1, t)
                   ELSE melody_loop(pitches, c, dur, i + 1, last_emit)

build_melody_events(p, filter, c, dur, tl) ==
    IF "MELODY" \notin filter THEN tl
    ELSE IF ~contains(p, "melody.pitch") THEN tl
    ELSE IF p["melody.pitch"] = <<>> THEN tl
    ELSE tl \o melody_loop(p["melody.pitch"][1], c, dur, 0, -c.continuous_interval)

\* ---- segmentation ----

\* if (mfccs.size() < 10) return
SBicMinFrames == 10

\* whether build_segmentation_events gets as far as running SBic
runs_sbic(p, filter) ==
    /\ "SEGMENT_BOUNDARY" \in filter
    /\ contains(p, "spectral.mfcc")
    /\ Len(p["spectral.mfcc"]) >= SBicMinFrames

\* for (size_t i = 1; i < segmentation.size() - 1; ++i), on a non-empty
\* vector; i is the 0-based index
RECURSIVE segmentation_loop(_, _, _, _)
segmentation_loop(segmentation, c, dur, i) ==
    IF i >= Len(segmentation) - 1 THEN <<>>
    ELSE LET t == frame_to_time(segmentation[i + 1], c.hop_size) IN
         (IF t > 0 /\ t < dur
          THEN <<TimelineEvent(t, Envelope("SEGMENT_BOUNDARY", t, <<>>))>>
          ELSE <<>>)
         \o segmentation_loop(segmentation, c, dur, i + 1)

\* segmentation is what SBic computed; it is non-empty here (on an empty
\* vector size() - 1 wraps around: see BuildTimeline)
build_segmentation_events(p, filter, c, dur, tl, segmentation) ==
    IF ~runs_sbic(p, filter) THEN tl
    ELSE tl \o segmentation_loop(segmentation, c, dur, 1)

\* ---- bookkeeping ----

\* Times are doubles.  A double keeps MantissaBits significant bits (53 in
\* the program, fewer here, so that sums round within the runs); a time
\* below 2^MantissaBits is held exactly.
MantissaBits == 4

\* the distance between neighbouring doubles at n
RECURSIVE double_ulp(_)
double_ulp(n) == IF n < 2^MantissaBits THEN 1 ELSE 2 * double_ulp(n \div 2)

\* the double nearest to n, ties to the even significand
double_round(n) ==
    LET u == double_ulp(n)
        q == n \div u
        r == n % u
    IN  IF 2 * r > u \/ (2 * r = u /\ q % 2 = 1) THEN (q + 1) * u ELSE q * u

\* t + interval in double arithmetic
double_add(a, b) == double_round(a + b)

\* for (double t = interval; t < duration; t += interval)
RECURSIVE position_loop(_, _, _)
position_loop(t, dur, interval) ==
    IF t < dur
    THEN <<TimelineEvent(t, Envelope("TRACK_POSITION", t, <<t>>))>>
         \o position_loop(double_add(t, interval), dur, interval)
    ELSE <<>>

\* analyze: track.start and the events of the builders, in call order
build_events(p, c, dur, segmentation) ==
    LET filter == c.enabled_events
        t0  == add_envelope(<<>>, 0, Envelope("TRACK_START", 0, <<dur>>))
        t1  == build_beat_events(p, filter, t0)
        t2  == build_onset_events(p, filter, t1)
        t3  == build_silence_events(p, filter, c, dur, t2)
        t4  == build_loudness_events(p, filter, c, dur, t3)
        t5  == build_energy_events(p, filter, c, dur, t4)
        t6  == build_spectral_events(p, filter, c, dur, t5)
        t7  == build_band_events(p, filter, c, dur, t6)
        t8  == build_tonal_events(p, filter, c, dur, t7)
        t9  == build_pitch_events(p, filter, c, dur, t8)
        t10 == build_melody_events(p, filter, c, dur, t9)
    IN  build_segmentation_events(p, filter, c, dur, t10, segmentation)

\* the timeline analyze() holds just before std::sort
build_timeline(p, c, dur, segmentation) ==
    LET t11 == build_events(p, c, dur, segmentation)
        t12 == t11 \o position_loop(c.position_interval, dur, c.position_interval)
    IN  add_envelope(t12, dur, Envelope("TRACK_END", dur, <<>>))

\* ---- std::sort ----

\* the orders of a finite set of indices
Orders(S) ==
    {f \in [1..Cardinality(S) -> S] : \A i, j \in DOMAIN f : f[i] = f[j] => i = j}

MinTimestamp(tl, idxs) ==
    CHOOSE m \in {tl[i].timestamp : i \in idxs} :
        \A i \in idxs : m <= tl[i].timestamp

\* the index orders that put tl in non-decreasing timestamp order
RECURSIVE SortedOrders(_, _)
SortedOrders(tl, idxs) ==
    IF idxs = {} THEN {<<>>}
    ELSE LET first == {i \in idxs : tl[i].timestamp = MinTimestamp(tl, idxs)}
         IN  {o \o r : o \in Orders(first), r \in SortedOrders(tl, idxs \ first)}

\* a faulty variant of std_sort: the timeline is returned as it was built
std_sort_omitted(tl) == {tl}

\* std::sort with the comparator a.timestamp < b.timestamp: the outcomes it
\* may produce; the order of events with equal timestamps is unspecified
std_sort(tl) ==
    {[k \in DOMAIN tl |-> tl[o[k]]] : o \in SortedOrders(tl, DOMAIN tl)}


(***************************************************************************)
(* The dataflow networks of the passes: the operators each pass creates    *)
(* and the connections it makes with >>                                    *)
(***************************************************************************)
\* factory.create(type) assigned to the variable name in the pass
Algo(pass, name, type) == [pass |-> pass, name |-> name, type |-> type]

\* op->output(port) >> sink->input(..), >> PC(pool, key), >> NOWHERE
ToOp(pass, op, port, sink) ==
    [pass |-> pass, op |-> op, port |-> port, kind |-> "op", to |-> sink]
ToPool(pass, op, port, key) ==
    [pass |-> pass, op |-> op, port |-> port, kind |-> "pool", to |-> key]
ToNowhere(pass, op, port) ==
    [pass |-> pass, op |-> op, port |-> port, kind |-> "NOWHERE", to |-> ""]

\* the output ports the passes name for each operator type
OutputPorts ==
    [MonoLoader |-> {"audio"},
     BeatTrackerMultiFeature |-> {"ticks", "confidence"},
     OnsetRate |-> {"onsetTimes", "onsetRate"},
     FrameCutter |-> {"frame"},
     StartStopSilence |-> {"startFrame", "stopFrame"},
     Loudness |-> {"loudness"},
     Energy |-> {"energy"},
     Windowing |-> {"frame"},
     Spectrum |-> {"spectrum"},
     SpectralCentroidTime |-> {"centroid"},
     MFCC |-> {"mfcc", "bands"},
     MelBands |-> {"bands"},
     BarkBands |-> {"bands"},
     ERBBands |-> {"bands"},
     SpectralComplexity |-> {"spectralComplexity"},
     SpectralContrast |-> {"spectralContrast", "spectralValley"},
     Flux |-> {"flux"},
     RollOff |-> {"rollOff"},
     HFC |-> {"hfc"},
     SpectralPeaks |-> {"frequencies", "magnitudes"},
     HPCP |-> {"hpcp"},
     Key |-> {"key", "scale", "strength"},
     ChordsDetection |-> {"chords", "strength"},
     Dissonance |-> {"dissonance"},
     Inharmonicity |-> {"inharmonicity"},
     PitchYinFFT |-> {"pitch", "pitchConfidence"},
     PredominantPitchMelodia |-> {"pitch", "pitchConfidence"}]

EmptyNetwork == [algos |-> {}, wires |-> {}, duration_by |-> <<>>]

\* the network after one more pass has made its connections
connect(net, algos, wires) ==
    [net EXCEPT !.algos = @ \cup algos, !.wires = @ \cup wires]

\* the operators or connections of a branch that is taken when cond holds
when(cond, S) == IF cond THEN S ELSE {}

beat_network(net) ==
    connect(net,
        {Algo("beat", "loader", "MonoLoader"),
         Algo("beat", "beatTracker", "BeatTrackerMultiFeature")},
        {ToOp("beat", "loader", "audio", "beatTracker"),
         ToPool("beat", "beatTracker", "ticks", "rhythm.ticks"),
         ToPool("beat", "beatTracker", "confidence", "rhythm.confidence")})

\* analyze, else branch of the beat pass: the loader alone
duration_network(net) ==
    connect(net,
        {Algo("duration", "loader", "MonoLoader")},
        {ToNowhere("duration", "loader", "audio")})

onset_network(net) ==
    connect(net,
        {Algo("onset", "loader", "MonoLoader"),
         Algo("onset", "onsetRate", "OnsetRate")},
        {ToOp("onset", "loader", "audio", "onsetRate"),
         ToPool("onset", "onsetRate", "onsetTimes", "rhythm.onsetTimes"),
         ToNowhere("onset", "onsetRate", "onsetRate")})

silence_network(net) ==
    connect(net,
        {Algo("silence", "loader", "MonoLoader"),
         Algo("silence", "frameCutter", "FrameCutter"),
         Algo("silence", "silence", "StartStopSilence")},
        {ToOp("silence", "loader", "audio", "frameCutter"),
         ToOp("silence", "frameCutter", "frame", "silence"),
         ToPool("silence", "silence", "startFrame", "silence.startFrame"),
         ToPool("silence", "silence", "stopFrame", "silence.stopFrame")})

loudness_energy_network(net) ==
    connect(net,
        {Algo("loudness", "loader", "MonoLoader"),
         Algo("loudness", "frameCutter", "FrameCutter"),
         Algo("loudness", "loudness", "Loudness"),
         Algo("loudness", "energy", "Energy")},
        {ToOp("loudness", "loader", "audio", "frameCutter"),
         ToOp("loudness", "frameCutter", "frame", "loudness"),
         ToOp("loudness", "frameCutter", "frame", "energy"),
         ToPool("loudness", "loudness", "loudness", "loudness.values"),
         ToPool("loudness", "energy", "energy", "energy.values")})

melody_network(net) ==
    connect(net,
        {Algo("melody", "loader", "MonoLoader"),
         Algo("melody", "melody", "PredominantPitchMelodia")},
        {ToOp("melody", "loader", "audio", "melody"),
         ToPool("melody", "melody", "pitch", "melody.pitch"),
         ToPool("melody", "melody", "pitchConfidence", "melody.confidence")})

\* one consumer of the spectrum with a single output stored in the Pool
spectrum_consumer(name, type, port, key) ==
    [algos |-> {Algo("spectral", name, type)},
     wires |-> {ToOp("spectral", "spectrum", "spectrum", name),
                ToPool("spectral", name, port, key)}]

\* a faulty variant of peaks_sink: the outputs of SpectralPeaks are left
\* unconnected when HPCP is not created
peaks_sink_omitted(want_hpcp) == {}

\* if (!want_hpcp): spectralPeaks->output(..) >> NOWHERE, twice
peaks_sink(want_hpcp) ==
    when(~want_hpcp,
         {ToNowhere("spectral", "spectralPeaks", "frequencies"),
          ToNowhere("spectral", "spectralPeaks", "magnitudes")})

\* run_spectral_pass: the branches taken for the filter
spectral_network(net, filter) ==
    LET s == "spectral"
        want_centroid == "SPECTRAL_CENTROID" \in filter
        want_mfcc == needs_any(filter, {"MFCC", "TIMBRE_CHANGE", "SEGMENT_BOUNDARY"})
        want_mel == "BANDS_MEL" \in filter
        want_bark == "BANDS_BARK" \in filter
        want_erb == "BANDS_ERB" \in filter
        want_complexity == "SPECTRAL_COMPLEXITY" \in filter
        want_contrast == "SPECTRAL_CONTRAST" \in filter
        want_flux == "SPECTRAL_FLUX" \in filter
        want_rolloff == "SPECTRAL_ROLLOFF" \in filter
        want_hfc == "HFC" \in filter
        want_hpcp == needs_any(filter, {"CHROMA", "KEY_CHANGE", "CHORD_CHANGE", "TUNING"})
        want_diss_inharm == needs_any(filter, {"DISSONANCE", "INHARMONICITY"})
        want_peaks == want_hpcp \/ want_diss_inharm
        want_key == want_hpcp /\ needs_any(filter, {"KEY_CHANGE"})
        want_chords == want_hpcp /\ "CHORD_CHANGE" \in filter
        want_diss == want_diss_inharm /\ want_peaks /\ "DISSONANCE" \in filter
        want_inharm == want_diss_inharm /\ want_peaks /\ "INHARMONICITY" \in filter
        want_pitch == needs_any(filter, {"PITCH", "PITCH_CHANGE"})
        spectrum_has_consumer ==
            want_mfcc \/ want_mel \/ want_bark \/ want_erb \/ want_complexity
                \/ want_contrast \/ want_flux \/ want_rolloff \/ want_hfc
                \/ want_peaks \/ want_pitch \/ want_diss_inharm
        mel == spectrum_consumer("melBands", "MelBands", "bands", "bands.mel")
        bark == spectrum_consumer("barkBands", "BarkBands", "bands", "bands.bark")
        erb == spectrum_consumer("erbBands", "ERBBands", "bands", "bands.erb")
        cplx == spectrum_consumer("complexity", "SpectralComplexity",
                                  "spectralComplexity", "spectral.complexity")
        flux == spectrum_consumer("flux", "Flux", "flux", "spectral.flux")
        roll == spectrum_consumer("rolloff", "RollOff", "rollOff", "spectral.rolloff")
        hfc == spectrum_consumer("hfcAlgo", "HFC", "hfc", "spectral.hfc")
    IN  connect(net,
          {Algo(s, "loader", "MonoLoader"), Algo(s, "frameCutter", "FrameCutter"),
           Algo(s, "windowing", "Windowing"), Algo(s, "spectrum", "Spectrum")}
          \cup when(want_centroid, {Algo(s, "centroid", "SpectralCentroidTime")})
          \cup when(want_mfcc, {Algo(s, "mfcc", "MFCC")})
          \cup when(want_mel, mel.algos)
          \cup when(want_bark, bark.algos)
          \cup when(want_erb, erb.algos)
          \cup when(want_complexity, cplx.algos)
          \cup when(want_contrast, {Algo(s, "contrast", "SpectralContrast")})
          \cup when(want_flux, flux.algos)
          \cup when(want_rolloff, roll.algos)
          \cup when(want_hfc, hfc.algos)
          \cup when(want_peaks, {Algo(s, "spectralPeaks", "SpectralPeaks")})
          \cup when(want_hpcp, {Algo(s, "hpcp", "HPCP")})
          \cup when(want_key, {Algo(s, "key", "Key")})
          \cup when(want_chords, {Algo(s, "chords", "ChordsDetection")})
          \cup when(want_peaks /\ want_diss_inharm,
                    {Algo(s, "filteredPeaks", "SpectralPeaks")})
          \cup when(want_diss, {Algo(s, "diss", "Dissonance")})
          \cup when(want_inharm, {Algo(s, "inharm", "Inharmonicity")})
          \cup when(want_pitch, {Algo(s, "pitchYin", "PitchYinFFT")}),
          {ToOp(s, "loader", "audio", "frameCutter"),
           ToOp(s, "frameCutter", "frame", "windowing"),
           ToOp(s, "windowing", "frame", "spectrum")}
          \cup when(want_centroid,
                    {ToOp(s, "frameCutter", "frame", "centroid"),
                     ToPool(s, "centroid", "centroid", "spectral.centroid")})
          \cup when(want_mfcc,
                    {ToOp(s, "spectrum", "spectrum", "mfcc"),
                     ToPool(s, "mfcc", "mfcc", "spectral.mfcc"),
                     ToNowhere(s, "mfcc", "bands")})
          \cup when(want_mel, mel.wires)
          \cup when(want_bark, bark.wires)
          \cup when(want_erb, erb.wires)
          \cup when(want_complexity, cplx.wires)
          \cup when(want_contrast,
                    {ToOp(s, "spectrum", "spectrum", "contrast"),
                     ToPool(s, "contrast", "spectralContrast", "spectral.contrast"),
                     ToNowhere(s, "contrast", "spectralValley")})
          \cup when(want_flux, flux.wires)
          \cup when(want_rolloff, roll.wires)
          \cup when(want_hfc, hfc.wires)
          \cup when(want_peaks, {ToOp(s, "spectrum", "spectrum", "spectralPeaks")})
          \cup when(want_hpcp,
                    {ToOp(s, "spectralPeaks", "frequencies", "hpcp"),
                     ToOp(s, "spectralPeaks", "magnitudes", "hpcp"),
                     ToPool(s, "hpcp", "hpcp", "tonal.hpcp")})
          \cup when(want_key,
                    {ToOp(s, "hpcp", "hpcp", "key"),
                     ToPool(s, "key", "key", "tonal.key"),
                     ToPool(s, "key", "scale", "tonal.scale"),
                     ToPool(s, "key", "strength", "tonal.keyStrength")})
          \cup when(want_chords,
                    {ToOp(s, "hpcp", "hpcp", "chords"),
                     ToPool(s, "chords", "chords", "tonal.chords"),
                     ToPool(s, "chords", "strength", "tonal.chordStrength")})
          \cup when(want_peaks, peaks_sink(want_hpcp))
          \cup when(want_peaks /\ want_diss_inharm,
                    {ToOp(s, "spectrum", "spectrum", "filteredPeaks")})
          \cup when(want_diss,
                    {ToOp(s, "filteredPeaks", "frequencies", "diss"),
                     ToOp(s, "filteredPeaks", "magnitudes", "diss"),
                     ToPool(s, "diss", "dissonance", "tonal.dissonance")})
          \cup when(want_inharm,
                    {ToOp(s, "filteredPeaks", "frequencies", "inharm"),
                     ToOp(s, "filteredPeaks", "magnitudes", "inharm"),
                     ToPool(s, "inharm", "inharmonicity", "tonal.inharmonicity")})
          \cup when(want_pitch,
                    {ToOp(s, "spectrum", "spectrum", "pitchYin"),
                     ToPool(s, "pitchYin", "pitch", "pitch.values"),
                     ToPool(s, "pitchYin", "pitchConfidence", "pitch.confidence")})
          \cup when(~spectrum_has_consumer,
                    {ToNowhere(s, "spectrum", "spectrum")}))
(***************************************************************************)
(* The analysis passes.  The extraction toolkit is external: what a pass   *)
(* writes to the Pool is chosen from bounded sets.                         *)
(***************************************************************************)
\* longest measured duration, in sample periods
MaxDuration == 3
\* most frames of a per-frame array whose values are chosen freely
MaxFrames == 3
\* most beat ticks / onset times
MaxBeats == 1
\* largest hop size, in samples
MaxHop == 1
\* largest continuous / position interval, in sample periods
MaxInterval == 2

\* sample rates of the runs: 0.05 s is one sample period
SampleRates == {20}

\* tick and onset times: ascending, possibly beyond the duration
TickSeqs ==
    {s \in UNION {[1..k -> 0..(MaxDuration + 1)] : k \in 0..MaxBeats} :
        \A i \in 1..(Len(s) - 1) : s[i] < s[i + 1]}

\* frame counts of the spectral pass: short arrays, and one long enough
\* for the segmentation
FrameCounts == (0..MaxFrames) \cup {SBicMinFrames}

\* arrays of n frames: the first MaxFrames frames take any value of V, the
\* frames after them the value d
FrameArrays(n, V, d) ==
    {[i \in 1..n |-> IF i <= MaxFrames THEN h[i] ELSE d] :
        h \in [1..(IF n <= MaxFrames THEN n ELSE MaxFrames) -> V]}

ConstArray(n, d) == [i \in 1..n |-> d]

\* loudness values
Levels == {0, 1, 3}

\* (frequency in Hz, confidence in tenths) of a pitch estimate
PitchFrames ==
    {[f |-> 0, c |-> 0], [f |-> 100, c |-> 4], [f |-> 100, c |-> 6],
     [f |-> 110, c |-> 6]}

\* segmentation vectors SBic may return: ascending frame indices
SegVectors ==
    {s \in UNION {[1..k -> 0..MaxFrames] : k \in 0..(MaxFrames + 1)} :
        \A i \in 1..(Len(s) - 1) : s[i] < s[i + 1]}

\* the filters of the runs: every single type, the default preset, the
\* three silence types together, and a filter that asks for HPCP and for
\* the filtered peaks at once
AnalyzeFilters ==
    {{t} : t \in all_events}
        \cup {default_events, {"SILENCE_START", "SILENCE_END", "GAP"},
              {"KEY_CHANGE", "INHARMONICITY"}}

AnalyzeConfigs ==
    [hop_size : 1..MaxHop,
     sample_rate : SampleRates,
     continuous_interval : 1..MaxInterval,
     position_interval : 1..MaxInterval,
     enabled_events : AnalyzeFilters,
     prepare_time : {0},
     enable_unicast : {FALSE},
     unicast_target : {""}]

EmptyPool == [k \in {} |-> <<>>]

\* run_beat_pass: pool after the pass
run_beat_pass(p, ticks) ==
    pool_store(pool_store(p, "rhythm.ticks", ticks), "rhythm.confidence", <<1>>)

run_onset_pass(p, onsets) == pool_store(p, "rhythm.onsetTimes", onsets)

run_silence_pass(p, starts, stops) ==
    pool_store(pool_store(p, "silence.startFrame", starts),
               "silence.stopFrame", stops)

run_loudness_energy_pass(p, values) ==
    pool_store(pool_store(p, "loudness.values", values),
               "energy.values", ConstArray(Len(values), <<0>>))

\* a Pool key written only when the filter asks for it
store_if(want, p, key, values) == IF want THEN pool_store(p, key, values) ELSE p

\* run_spectral_pass over n frames; mfccs, keys, chords and pitch are what
\* MFCC, Key, ChordsDetection and PitchYinFFT produced
run_spectral_pass(p, filter, n, mfccs, keys, chords, pitch) ==
    LET frames == ConstArray(n, <<0>>)
        want_mfcc == needs_any(filter, {"MFCC", "TIMBRE_CHANGE", "SEGMENT_BOUNDARY"})
        want_hpcp == needs_any(filter, {"CHROMA", "KEY_CHANGE", "CHORD_CHANGE", "TUNING"})
        want_pitch == needs_any(filter, {"PITCH", "PITCH_CHANGE"})
        p1  == store_if("SPECTRAL_CENTROID" \in filter, p, "spectral.centroid", frames)
        p2  == store_if(want_mfcc, p1, "spectral.mfcc", mfccs)
        p3  == store_if("BANDS_MEL" \in filter, p2, "bands.mel", frames)
        p4  == store_if("BANDS_BARK" \in filter, p3, "bands.bark", frames)
        p5  == store_if("BANDS_ERB" \in filter, p4, "bands.erb", frames)
        p6  == store_if("SPECTRAL_COMPLEXITY" \in filter, p5, "spectral.complexity", frames)
        p7  == store_if("SPECTRAL_CONTRAST" \in filter, p6, "spectral.contrast", frames)
        p8  == store_if("SPECTRAL_FLUX" \in filter, p7, "spectral.flux", frames)
        p9  == store_if("SPECTRAL_ROLLOFF" \in filter, p8, "spectral.rolloff", frames)
        p10 == store_if("HFC" \in filter, p9, "spectral.hfc", frames)
        p11 == store_if(want_hpcp, p10, "tonal.hpcp", frames)
        p12 == store_if(want_hpcp /\ "KEY_CHANGE" \in filter, p11, "tonal.key", keys)
        p13 == store_if(want_hpcp /\ "KEY_CHANGE" \in filter, p12, "tonal.scale", keys)
        p14 == store_if(want_hpcp /\ "KEY_CHANGE" \in filter, p13, "tonal.keyStrength", keys)
        p15 == store_if(want_hpcp /\ "CHORD_CHANGE" \in filter, p14, "tonal.chords", chords)
        p16 == store_if(want_hpcp /\ "CHORD_CHANGE" \in filter, p15, "tonal.chordStrength",
                        [i \in DOMAIN chords |-> i])
        p17 == store_if("DISSONANCE" \in filter, p16, "tonal.dissonance", frames)
        p18 == store_if("INHARMONICITY" \in filter, p17, "tonal.inharmonicity", frames)
        p19 == store_if(want_pitch, p18, "pitch.values",
                        [i \in DOMAIN pitch |-> pitch[i].f])
    IN  store_if(want_pitch, p19, "pitch.confidence",
                 [i \in DOMAIN pitch |-> pitch[i].c])

\* the whole vector is one token of PredominantPitchMelodia
run_melody_pass(p, pitches) == pool_store(p, "melody.pitch", <<pitches>>)

need_spectral(filter) ==
    needs_any(filter,
        {"SPECTRAL_CENTROID", "SPECTRAL_FLUX", "SPECTRAL_COMPLEXITY",
         "SPECTRAL_CONTRAST", "SPECTRAL_ROLLOFF", "MFCC", "TIMBRE_CHANGE",
         "BANDS_MEL", "BANDS_BARK", "BANDS_ERB", "HFC",
         "CHROMA", "KEY_CHANGE", "CHORD_CHANGE", "TUNING", "DISSONANCE",
         "INHARMONICITY", "PITCH", "PITCH_CHANGE", "SEGMENT_BOUNDARY"})

\* the beat pass, or the duration-only pass: either measures the duration;
\* MonoLoader throws EssentiaException when it cannot open or decode the
\* input file, and nothing in analyze() or main catches it
BeatPass ==
    /\ apc = "beat"
    /\ \/ /\ \E d \in 0..MaxDuration : duration' = d
          /\ IF needs_any(cfg.enabled_events, {"BEAT", "TEMPO_CHANGE", "DOWNBEAT"})
             THEN /\ \E ticks \in TickSeqs : pool' = run_beat_pass(pool, ticks)
                  /\ network' = [beat_network(network) EXCEPT
                                     !.duration_by = Append(@, "beat")]
             ELSE /\ pool' = pool
                  /\ network' = [duration_network(network) EXCEPT
                                     !.duration_by = Append(@, "duration")]
          /\ apc' = "onset"
       \/ /\ apc' = "threw"
          /\ UNCHANGED <<pool, duration, network>>
    /\ UNCHANGED <<cfg, timeline, filterVars, position_t, winplayVars, mainVars>>

OnsetPass ==
    /\ apc = "onset"
    /\ IF needs_any(cfg.enabled_events, {"ONSET", "ONSET_RATE", "NOVELTY"})
       THEN \E onsets \in TickSeqs : pool' = run_onset_pass(pool, onsets)
       ELSE pool' = pool
    /\ network' = IF needs_any(cfg.enabled_events, {"ONSET", "ONSET_RATE", "NOVELTY"})
                  THEN onset_network(network)
                  ELSE network
    /\ apc' = "silence"
    /\ UNCHANGED <<cfg, duration, timeline, filterVars, position_t, winplayVars, mainVars>>

SilencePass ==
    /\ apc = "silence"
    /\ IF needs_any(cfg.enabled_events, {"SILENCE_START", "SILENCE_END", "GAP"})
       THEN \E starts, stops \in {<<>>} \cup {<<f>> : f \in 0..MaxFrames} :
                pool' = run_silence_pass(pool, starts, stops)
       ELSE pool' = pool
    /\ network' = IF needs_any(cfg.enabled_events,
                               {"SILENCE_START", "SILENCE_END", "GAP"})
                  THEN silence_network(network)
                  ELSE network
    /\ apc' = "loudness"
    /\ UNCHANGED <<cfg, duration, timeline, filterVars, position_t, winplayVars, mainVars>>

LoudnessEnergyPass ==
    /\ apc = "loudness"
    /\ IF needs_any(cfg.enabled_events,
                    {"LOUDNESS", "LOUDNESS_PEAK", "ENERGY", "DYNAMIC_CHANGE"})
       THEN \E n \in 0..MaxFrames : \E values \in FrameArrays(n, Levels, 0) :
                pool' = run_loudness_energy_pass(pool, values)
       ELSE pool' = pool
    /\ network' = IF needs_any(cfg.enabled_events,
                               {"LOUDNESS", "LOUDNESS_PEAK", "ENERGY",
                                "DYNAMIC_CHANGE"})
                  THEN loudness_energy_network(network)
                  ELSE network
    /\ apc' = "spectral"
    /\ UNCHANGED <<cfg, duration, timeline, filterVars, position_t, winplayVars, mainVars>>

SpectralPass ==
    /\ apc = "spectral"
    /\ IF need_spectral(cfg.enabled_events)
       THEN \E n \in FrameCounts :
            \E mfccs \in (IF "TIMBRE_CHANGE" \in cfg.enabled_events
                          THEN FrameArrays(n, {<<0>>, <<60>>}, <<0>>)
                          ELSE {ConstArray(n, <<0>>)}) :
            \E keys \in (IF "KEY_CHANGE" \in cfg.enabled_events
                         THEN {<<>>, <<1>>} ELSE {<<>>}) :
            \E chords \in (IF "CHORD_CHANGE" \in cfg.enabled_events
                           THEN FrameArrays(n, {1, 2}, 1) ELSE {<<>>}) :
            \E pitch \in (IF needs_any(cfg.enabled_events, {"PITCH", "PITCH_CHANGE"})
                          THEN FrameArrays(n, PitchFrames, [f |-> 0, c |-> 0])
                          ELSE {<<>>}) :
                pool' = run_spectral_pass(pool, cfg.enabled_events, n,
                                          mfccs, keys, chords, pitch)
       ELSE pool' = pool
    /\ network' = IF need_spectral(cfg.enabled_events)
                  THEN spectral_network(network, cfg.enabled_events)
                  ELSE network
    /\ apc' = "melody"
    /\ UNCHANGED <<cfg, duration, timeline, filterVars, position_t, winplayVars, mainVars>>

MelodyPass ==
    /\ apc = "melody"
    /\ IF "MELODY" \in cfg.enabled_events
       THEN \E n \in 0..MaxFrames : \E pitches \in FrameArrays(n, {0, 100}, 0) :
                pool' = run_melody_pass(pool, pitches)
       ELSE pool' = pool
    /\ network' = IF "MELODY" \in cfg.enabled_events
                  THEN melody_network(network)
                  ELSE network
    /\ apc' = "build"
    /\ UNCHANGED <<cfg, duration, timeline, filterVars, position_t, winplayVars, mainVars>>

\* the timeline is built from the Pool.  SBic returns the segmentation; on
\* an empty one segmentation.size() - 1 wraps around and the loop reads past
\* the vector's end until the process faults
BuildTimeline ==
    /\ apc = "build"
    /\ \E segmentation \in (IF runs_sbic(pool, cfg.enabled_events)
                            THEN SegVectors ELSE {<<0>>}) :
           IF segmentation = <<>>
           THEN /\ apc' = "crashed"
                /\ UNCHANGED timeline
           ELSE /\ apc' = "sort"
                /\ timeline' = build_timeline(pool, cfg, duration, segmentation)
    /\ UNCHANGED <<cfg, pool, duration, network, filterVars, position_t, winplayVars, mainVars>>

\* std::sort(timeline.begin(), timeline.end(), by timestamp); return
SortTimeline ==
    /\ apc = "sort"
    /\ \E sorted \in std_sort(timeline) : timeline' = sorted
    /\ apc' = "done"
    /\ UNCHANGED <<cfg, pool, duration, network, filterVars, position_t, winplayVars, mainVars>>

\* the events a timeline can hold before push_back finds no memory
MaxTimeline == 10

\* analyze: track.start, the builders, and the initialisation of the
\* heartbeat loop (double t = cfg.position_interval)
BuildEvents ==
    /\ apc = "events"
    /\ timeline' = build_events(pool, cfg, duration, <<0>>)
    /\ position_t' = cfg.position_interval
    /\ apc' = "position"
    /\ UNCHANGED <<cfg, pool, duration, network, filterVars, winplayVars,
                   mainVars>>

\* one test of t < duration: a heartbeat is appended and t += interval (the
\* allocation fails and analyze() is left by std::bad_alloc once the
\* timeline holds MaxTimeline events), or the loop is left and track.end is
\* appended
PositionStep ==
    /\ apc = "position"
    /\ IF position_t < duration
       THEN IF Len(timeline) < MaxTimeline
            THEN /\ timeline' = add_envelope(timeline, position_t,
                                    Envelope("TRACK_POSITION", position_t,
                                             <<position_t>>))
                 /\ position_t' = double_add(position_t,
                                             cfg.position_interval)
                 /\ apc' = apc
            ELSE /\ apc' = "crashed"
                 /\ UNCHANGED <<timeline, position_t>>
       ELSE /\ timeline' = add_envelope(timeline, duration,
                               Envelope("TRACK_END", duration, <<>>))
            /\ position_t' = position_t
            /\ apc' = "sort"
    /\ UNCHANGED <<cfg, pool, duration, network, filterVars, winplayVars,
                   mainVars>>

(***************************************************************************)
(* main, Emitter::run, Transport::send and the receive loop of tracks-recv *)
(***************************************************************************)
\* longest pre-roll countdown, in sample periods
MaxPrepare == 1
\* the clock is delayed spontaneously only below this value
MaxNow == 5

\* most send_to failures of one run
MaxSendErrors == 1

\* the Config of the parts that do not run
IdleConfig ==
    [hop_size |-> 1, sample_rate |-> 20, continuous_interval |-> 1,
     position_interval |-> 1, enabled_events |-> default_events,
     prepare_time |-> 0, enable_unicast |-> FALSE, unicast_target |-> ""]

\* a command line that load_config accepts: an input file and --events beat
PlainArgs ==
    [bad_option |-> FALSE, help |-> FALSE, list_events |-> FALSE,
     yaml |-> "absent", input |-> TRUE, mode |-> "events",
     events |-> <<"b","e","a","t">>, prepare_time |-> 0,
     enable_unicast |-> FALSE, unicast_target |-> ""]

\* command lines: accepted ones with each pre-roll countdown and with a
\* readable configuration file, and one for each way load_config can end
\* early: an unknown option, --help, --list-events, a configuration file
\* that is not valid YAML, --events with an unknown name only, no input file
CliArgs ==
    {[PlainArgs EXCEPT !.prepare_time = p] : p \in 0..MaxPrepare}
    \cup {[PlainArgs EXCEPT !.yaml = "valid"],
          [PlainArgs EXCEPT !.bad_option = TRUE],
          [PlainArgs EXCEPT !.help = TRUE],
          [PlainArgs EXCEPT !.list_events = TRUE],
          [PlainArgs EXCEPT !.yaml = "malformed"],
          [PlainArgs EXCEPT !.events = <<"b","o","g","u","s">>],
          [PlainArgs EXCEPT !.input = FALSE]}

\* accepted command lines with each unicast setting
TransportCliArgs ==
    {[PlainArgs EXCEPT !.prepare_time = p, !.enable_unicast = u,
                       !.unicast_target = t] :
        p \in 0..MaxPrepare, u \in BOOLEAN, t \in {"", "192.168.1.100"}}

\* what detect_wsl2_host can return: nothing, or the default gateway
GatewayLookups == {"", "172.18.224.1"}

\* load_config: [ok, cfg, threw]; --sample-rate, --hop-size,
\* --position-interval and --continuous-interval carry the small values of
\* the runs.  YAML::Load and as<T>() of load_yaml throw on a file that is not
\* valid YAML, and only po::store and po::notify are inside the try block
load_config(cli) ==
    LET base == [hop_size |-> 1, sample_rate |-> 20,
                 continuous_interval |-> 1, position_interval |-> MaxInterval,
                 enabled_events |-> {}, prepare_time |-> cli.prepare_time,
                 enable_unicast |-> cli.enable_unicast,
                 unicast_target |-> cli.unicast_target]
        filter == IF cli.mode = "all" THEN all_events
                  ELSE IF cli.mode = "primary" THEN tier1_events
                  ELSE IF cli.mode = "events"
                       THEN parse_event_filter(cli.events).filter
                  ELSE default_events
        loaded == [base EXCEPT !.enabled_events = filter]
        fail(c) == [ok |-> FALSE, cfg |-> c, threw |-> FALSE]
    IN  IF cli.bad_option THEN fail(base)
        ELSE IF cli.help THEN fail(base)
        ELSE IF cli.list_events THEN fail(base)
        ELSE IF cli.yaml = "malformed"
             THEN [ok |-> FALSE, cfg |-> base, threw |-> TRUE]
        ELSE IF cli.mode = "events" /\ filter = {} THEN fail(loaded)
        ELSE IF ~cli.input THEN fail(loaded)
        ELSE [ok |-> TRUE, cfg |-> loaded, threw |-> FALSE]

\* 100 ms, the polling period of the waits, in sample periods
poll_period(c) == c.sample_rate \div 10

Min(a, b) == IF a < b THEN a ELSE b

\* a faulty variant of Transport_send: the datagram goes out twice
Transport_send_twice(datagrams, data) == Append(Append(datagrams, data), data)

\* Transport::send, the multicast send_to: one datagram per call
Transport_send(datagrams, data) == Append(datagrams, data)

\* a faulty variant of unicast_send_to: no unicast copy after a multicast
\* failure
unicast_send_after_success(enabled, mc_failed, datagrams, data) ==
    IF enabled /\ ~mc_failed THEN Append(datagrams, data) ELSE datagrams

\* Transport::send, if (unicast_enabled_): the same data to the unicast
\* endpoint, whatever the error code of the multicast send_to was
unicast_send_to(enabled, mc_failed, datagrams, data) ==
    IF enabled THEN Append(datagrams, data) ELSE datagrams

\* Transport::send: what a call writes to std::cerr
send_log(mc_failed, uc_failed) ==
    (IF mc_failed THEN <<"send error">> ELSE <<>>)
        \o (IF uc_failed THEN <<"unicast send error">> ELSE <<>>)

\* the send errors among the lines of std::cerr
send_errors(log) ==
    SelectSeq(log, LAMBDA l : l \in {"send error", "unicast send error"})

\* a faulty variant of Transport_ctor: the lookup result is not tested
Transport_ctor_unchecked(c, detected) ==
    [unicast_enabled_ |-> c.enable_unicast,
     unicast_endpoint_ |->
         IF ~c.enable_unicast THEN ""
         ELSE IF c.unicast_target = "" THEN detected ELSE c.unicast_target,
     warnings |-> <<>>]

\* Transport::Transport, if (cfg.enable_unicast): the target is
\* cfg.unicast_target or else the result of detect_wsl2_host; with neither
\* one warning is written and unicast_enabled_ stays false
Transport_ctor(c, detected) ==
    LET tgt == IF c.unicast_target = "" THEN detected ELSE c.unicast_target
    IN  IF ~c.enable_unicast
        THEN [unicast_enabled_ |-> FALSE, unicast_endpoint_ |-> "",
              warnings |-> <<>>]
        ELSE IF tgt = ""
        THEN [unicast_enabled_ |-> FALSE, unicast_endpoint_ |-> "",
              warnings |-> <<"unicast warning">>]
        ELSE [unicast_enabled_ |-> TRUE, unicast_endpoint_ |-> tgt,
              warnings |-> <<>>]


\* the TRACK_ABORT envelope of Emitter::run
abort_envelope(ts) ==
    [type |-> "TRACK_ABORT", timestamp |-> ts, val |-> <<>>,
     reason |-> "user_interrupt"]

\* a faulty variant of prepare_envelope: the countdown as the timestamp
prepare_envelope_unsigned(c) ==
    [type |-> "TRACK_PREPARE", timestamp |-> c.prepare_time,
     val |-> <<c.prepare_time>>, reason |-> ""]

\* the TRACK_PREPARE envelope of Emitter::run
prepare_envelope(c) ==
    [type |-> "TRACK_PREPARE", timestamp |-> 0 - c.prepare_time,
     val |-> <<c.prepare_time>>, reason |-> ""]

\* the receive loop of tracks-recv over the datagrams delivered in order:
\* it leaves the loop at the first TRACK_END or TRACK_ABORT
RECURSIVE recv_loop(_, _)
recv_loop(datagrams, i) ==
    IF i > Len(datagrams) THEN "listening"
    ELSE IF datagrams[i].type \in {"TRACK_END", "TRACK_ABORT"} THEN "exited"
    ELSE recv_loop(datagrams, i + 1)

EmitterPlayback ==
    {"loop_top", "wait_loop", "wait_check", "wait_sleep", "after_wait",
     "send_event"}

EmitterPrepare == {"prepare_loop", "prepare_check", "prepare_sleep"}

\* positions of main at which the signal handlers are installed
Running ==
    {"analyze", "analysis_check", "transport", "run", "baseline", "emit_check"}
        \cup EmitterPrepare \cup EmitterPlayback

\* Transport::send(data): a multicast send_to, then with unicast enabled a
\* unicast send_to of the same data; either may fail, which is logged
Transport_send_call(data) ==
    \E mc_failed \in BOOLEAN, uc_failed \in BOOLEAN :
        /\ uc_failed => unicast_enabled_
        /\ Len(send_errors(cerr)) + Len(send_log(mc_failed, uc_failed))
              <= MaxSendErrors
        /\ sent' = Transport_send(sent, data)
        /\ unicast_sent' =
              unicast_send_to(unicast_enabled_, mc_failed, unicast_sent, data)
        /\ cerr' = cerr \o send_log(mc_failed, uc_failed)

\* signal_handler: SIGINT or SIGTERM arrives; the history variable records
\* where main was and how many timeline events it had sent
SignalHandler ==
    /\ pc \in Running
    /\ ~g_interrupted
    /\ g_interrupted' = TRUE
    /\ flag_set_at' = [pc |-> pc, it |-> it, sleeps |-> 0]
    /\ UNCHANGED <<argv, pc, now, sent, it, wall_start, prepare_end, target,
                   exit_code, transportVars, filterVars, position_t, winplayVars, analyzeVars>>

\* time passes while Emitter::run executes
Tick ==
    /\ pc \in {"baseline"} \cup EmitterPrepare \cup EmitterPlayback
    /\ now < MaxNow
    /\ now' = now + 1
    /\ UNCHANGED <<argv, pc, g_interrupted, sent, it, wall_start, prepare_end,
                   target, exit_code, flag_set_at, transportVars, filterVars, position_t, winplayVars,
                   analyzeVars>>

\* main: load_config, then the signal handlers are installed; an exception
\* that leaves load_config leaves main too, and std::terminate aborts the
\* process (status 134 = 128 + SIGABRT)
LoadConfig ==
    /\ pc = "load_config"
    /\ LET r == load_config(argv)
       IN  IF r.threw
           THEN /\ cfg' = cfg
                /\ pc' = "exit"
                /\ exit_code' = 134
           ELSE IF r.ok
           THEN /\ cfg' = r.cfg
                /\ pc' = "analyze"
                /\ exit_code' = exit_code
           ELSE /\ cfg' = cfg
                /\ pc' = "exit"
                /\ exit_code' = 1
    /\ UNCHANGED <<argv, now, g_interrupted, sent, it, wall_start,
                   prepare_end, target, flag_set_at, transportVars,
                   filterVars, position_t, winplayVars, apc, pool, duration, timeline, network>>

\* main: auto timeline = analyze(cfg)
CallAnalyze ==
    /\ pc = "analyze"
    /\ apc = "idle"
    /\ apc' = "beat"
    /\ UNCHANGED <<cfg, pool, duration, timeline, network, filterVars, position_t, winplayVars,
                   mainVars>>

\* analyze returns
AnalyzeReturn ==
    /\ pc = "analyze"
    /\ apc = "done"
    /\ pc' = "analysis_check"
    /\ UNCHANGED <<argv, now, g_interrupted, sent, it, wall_start,
                   prepare_end, target, exit_code, flag_set_at, transportVars,
                   filterVars, position_t, winplayVars, analyzeVars>>

\* the exception of the loader leaves analyze and main: std::terminate
AnalyzeThrows ==
    /\ pc = "analyze"
    /\ apc = "threw"
    /\ pc' = "exit"
    /\ exit_code' = 134
    /\ UNCHANGED <<argv, now, g_interrupted, sent, it, wall_start,
                   prepare_end, target, flag_set_at, transportVars,
                   filterVars, position_t, winplayVars, analyzeVars>>

\* a faulty variant of AnalysisCheck: main goes on to the emission phase
\* whatever the flag is
AnalysisCheck_unchecked ==
    /\ pc = "analysis_check"
    /\ pc' = "transport"
    /\ UNCHANGED <<argv, now, g_interrupted, sent, it, wall_start,
                   prepare_end, target, exit_code, flag_set_at, transportVars,
                   filterVars, position_t, winplayVars, analyzeVars>>

\* main: if (g_interrupted.load()) return 130
AnalysisCheck ==
    /\ pc = "analysis_check"
    /\ IF g_interrupted
       THEN pc' = "exit" /\ exit_code' = 130
       ELSE pc' = "transport" /\ exit_code' = exit_code
    /\ UNCHANGED <<argv, now, g_interrupted, sent, it, wall_start,
                   prepare_end, target, flag_set_at, transportVars,
                   filterVars, position_t, winplayVars, analyzeVars>>

\* main: Transport transport(cfg)
TransportOpen ==
    /\ pc = "transport"
    /\ \E detected \in GatewayLookups :
         LET t == Transport_ctor(cfg, detected)
         IN  /\ unicast_enabled_' = t.unicast_enabled_
             /\ unicast_endpoint_' = t.unicast_endpoint_
             /\ cerr' = cerr \o t.warnings
    /\ socket_' = "open"
    /\ pc' = "run"
    /\ UNCHANGED <<argv, now, g_interrupted, sent, unicast_sent, it,
                   wall_start, prepare_end, target, exit_code, flag_set_at,
                   filterVars, position_t, winplayVars, analyzeVars>>

\* Emitter::run entry: empty timeline, TRACK_PREPARE and prepare_end
RunEntry ==
    /\ pc = "run"
    /\ IF timeline = <<>>
       THEN /\ pc' = "emit_check"
            /\ UNCHANGED <<sent, unicast_sent, cerr, prepare_end>>
       ELSE IF cfg.prepare_time > 0
       THEN /\ Transport_send_call(prepare_envelope(cfg))
            /\ prepare_end' = now + cfg.prepare_time
            /\ pc' = "prepare_loop"
       ELSE /\ pc' = "baseline"
            /\ UNCHANGED <<sent, unicast_sent, cerr, prepare_end>>
    /\ UNCHANGED <<argv, now, g_interrupted, it, wall_start, target,
                   exit_code, flag_set_at, socket_, unicast_enabled_,
                   unicast_endpoint_, filterVars, position_t, winplayVars, analyzeVars>>

\* while (now() < prepare_end)
PrepareLoop ==
    /\ pc = "prepare_loop"
    /\ pc' = IF now < prepare_end THEN "prepare_check" ELSE "baseline"
    /\ UNCHANGED <<argv, now, g_interrupted, sent, it, wall_start,
                   prepare_end, target, exit_code, flag_set_at, transportVars,
                   filterVars, position_t, winplayVars, analyzeVars>>

\* a faulty variant of PrepareCheck: after the TRACK_ABORT of the countdown
\* run goes on to the playback loop instead of returning
PrepareCheck_no_return ==
    /\ pc = "prepare_check"
    /\ IF g_interrupted
       THEN /\ Transport_send_call(abort_envelope(0 - cfg.prepare_time))
            /\ pc' = "baseline"
       ELSE /\ UNCHANGED <<sent, unicast_sent, cerr>>
            /\ pc' = "prepare_sleep"
    /\ UNCHANGED <<argv, now, g_interrupted, it, wall_start, prepare_end,
                   target, exit_code, flag_set_at, socket_, unicast_enabled_,
                   unicast_endpoint_, filterVars, position_t, winplayVars, analyzeVars>>

\* interrupted during the countdown: TRACK_ABORT and return
PrepareCheck ==
    /\ pc = "prepare_check"
    /\ IF g_interrupted
       THEN /\ Transport_send_call(abort_envelope(0 - cfg.prepare_time))
            /\ pc' = "emit_check"
       ELSE /\ UNCHANGED <<sent, unicast_sent, cerr>>
            /\ pc' = "prepare_sleep"
    /\ UNCHANGED <<argv, now, g_interrupted, it, wall_start, prepare_end,
                   target, exit_code, flag_set_at, socket_, unicast_enabled_,
                   unicast_endpoint_, filterVars, position_t, winplayVars, analyzeVars>>

\* sleep_for(min(prepare_end - now(), 100 ms)) when positive; the history
\* variable counts the sleeps finished since the flag was set
PrepareSleep ==
    /\ pc = "prepare_sleep"
    /\ LET sleep_time == Min(prepare_end - now, poll_period(cfg))
       IN  /\ now' = IF sleep_time > 0 THEN now + sleep_time ELSE now
           /\ flag_set_at' =
                 IF g_interrupted /\ sleep_time > 0
                 THEN [flag_set_at EXCEPT !.sleeps = @ + 1]
                 ELSE flag_set_at
    /\ pc' = "prepare_loop"
    /\ UNCHANGED <<argv, g_interrupted, sent, it, wall_start, prepare_end,
                   target, exit_code, transportVars, filterVars, position_t, winplayVars, analyzeVars>>

\* auto wall_start = steady_clock::now(); the loop starts at the first event
Baseline ==
    /\ pc = "baseline"
    /\ wall_start' = now
    /\ it' = 1
    /\ pc' = "loop_top"
    /\ UNCHANGED <<argv, now, g_interrupted, sent, prepare_end, target,
                   exit_code, flag_set_at, transportVars, filterVars, position_t, winplayVars,
                   analyzeVars>>

\* a faulty variant of LoopTop: the target is computed from the present time
\* and the distance to the previous event
LoopTop_relative ==
    /\ pc = "loop_top"
    /\ IF it > Len(timeline)
       THEN /\ pc' = "emit_check"
            /\ UNCHANGED <<sent, unicast_sent, cerr, target>>
       ELSE IF g_interrupted
       THEN /\ Transport_send_call(abort_envelope(timeline[it].timestamp))
            /\ pc' = "emit_check"
            /\ UNCHANGED target
       ELSE /\ target' = now + timeline[it].timestamp
                            - (IF it > 1 THEN timeline[it - 1].timestamp ELSE 0)
            /\ pc' = "wait_loop"
            /\ UNCHANGED <<sent, unicast_sent, cerr>>
    /\ UNCHANGED <<argv, now, g_interrupted, it, wall_start, prepare_end,
                   exit_code, flag_set_at, socket_, unicast_enabled_,
                   unicast_endpoint_, filterVars, position_t, winplayVars, analyzeVars>>

\* top of the for loop: past the last event run returns; an interruption
\* is answered by TRACK_ABORT and return; else the target is computed
LoopTop ==
    /\ pc = "loop_top"
    /\ IF it > Len(timeline)
       THEN /\ pc' = "emit_check"
            /\ UNCHANGED <<sent, unicast_sent, cerr, target>>
       ELSE IF g_interrupted
       THEN /\ Transport_send_call(abort_envelope(timeline[it].timestamp))
            /\ pc' = "emit_check"
            /\ UNCHANGED target
       ELSE /\ target' = wall_start + timeline[it].timestamp
            /\ pc' = "wait_loop"
            /\ UNCHANGED <<sent, unicast_sent, cerr>>
    /\ UNCHANGED <<argv, now, g_interrupted, it, wall_start, prepare_end,
                   exit_code, flag_set_at, socket_, unicast_enabled_,
                   unicast_endpoint_, filterVars, position_t, winplayVars, analyzeVars>>

\* while (now() < target)
WaitLoop ==
    /\ pc = "wait_loop"
    /\ pc' = IF now < target THEN "wait_check" ELSE "after_wait"
    /\ UNCHANGED <<argv, now, g_interrupted, sent, it, wall_start,
                   prepare_end, target, exit_code, flag_set_at, transportVars,
                   filterVars, position_t, winplayVars, analyzeVars>>

\* if (g_interrupted) break
WaitCheck ==
    /\ pc = "wait_check"
    /\ pc' = IF g_interrupted THEN "after_wait" ELSE "wait_sleep"
    /\ UNCHANGED <<argv, now, g_interrupted, sent, it, wall_start,
                   prepare_end, target, exit_code, flag_set_at, transportVars,
                   filterVars, position_t, winplayVars, analyzeVars>>

\* sleep_for(min(target - now(), 100 ms)) when positive; the history
\* variable counts the sleeps finished since the flag was set
WaitSleep ==
    /\ pc = "wait_sleep"
    /\ LET sleep_time == Min(target - now, poll_period(cfg))
       IN  /\ now' = IF sleep_time > 0 THEN now + sleep_time ELSE now
           /\ flag_set_at' =
                 IF g_interrupted /\ sleep_time > 0
                 THEN [flag_set_at EXCEPT !.sleeps = @ + 1]
                 ELSE flag_set_at
    /\ pc' = "wait_loop"
    /\ UNCHANGED <<argv, g_interrupted, sent, it, wall_start, prepare_end,
                   target, exit_code, transportVars, filterVars, position_t, winplayVars, analyzeVars>>

\* a faulty variant of AfterWait: the flag is not looked at after the wait
AfterWait_unchecked ==
    /\ pc = "after_wait"
    /\ it' = it
    /\ pc' = "send_event"
    /\ UNCHANGED <<argv, now, g_interrupted, sent, wall_start, prepare_end,
                   target, exit_code, flag_set_at, transportVars, filterVars, position_t, winplayVars,
                   analyzeVars>>

\* if (g_interrupted) continue: the loop advances to the next event
AfterWait ==
    /\ pc = "after_wait"
    /\ IF g_interrupted
       THEN it' = it + 1 /\ pc' = "loop_top"
       ELSE it' = it /\ pc' = "send_event"
    /\ UNCHANGED <<argv, now, g_interrupted, sent, wall_start, prepare_end,
                   target, exit_code, flag_set_at, transportVars, filterVars, position_t, winplayVars,
                   analyzeVars>>

\* transport.send(event.serialized)
SendEvent ==
    /\ pc = "send_event"
    /\ Transport_send_call(timeline[it].serialized)
    /\ it' = it + 1
    /\ pc' = "loop_top"
    /\ UNCHANGED <<argv, now, g_interrupted, wall_start, prepare_end, target,
                   exit_code, flag_set_at, socket_, unicast_enabled_,
                   unicast_endpoint_, filterVars, position_t, winplayVars, analyzeVars>>

\* main: if (g_interrupted.load()) return 130; return 0
EmitCheck ==
    /\ pc = "emit_check"
    /\ exit_code' = IF g_interrupted THEN 130 ELSE 0
    /\ pc' = "exit"
    /\ UNCHANGED <<argv, now, g_interrupted, sent, it, wall_start,
                   prepare_end, target, flag_set_at, transportVars,
                   filterVars, position_t, winplayVars, analyzeVars>>

(***************************************************************************)
(* WINPLAY: the receive loop of main and the AudioPlayer it drives         *)
(***************************************************************************)
\* most envelopes handled in one run
MaxDatagrams == 3

\* most receive() calls counted after the shutdown flag was set
MaxPolls == 2

\* AudioPlayer after construction; started is the state of the device
\* between ma_device_start and ma_device_uninit
IdlePlayer ==
    [device_initialized_ |-> FALSE, started |-> FALSE, finished_ |-> FALSE]

\* AudioPlayer::stop
AudioPlayer_stop(p) == IdlePlayer

\* AudioPlayer::prepare: stop(), then the decoder and the device are
\* initialised, which may fail
AudioPlayer_prepare(p, ok) ==
    [AudioPlayer_stop(p) EXCEPT !.device_initialized_ = ok]

\* AudioPlayer::start: false without a device or when the device fails
AudioPlayer_start(p, ok) ==
    [p EXCEPT !.started = p.device_initialized_ /\ ok]

\* a faulty variant of handle_envelope: TrackStart starts the player in
\* every state
handle_envelope_any_state(st, p, event_case, prepare_ok, start_ok) ==
    IF event_case = "TrackPrepare"
    THEN [state |-> IF prepare_ok THEN "PREPARED" ELSE "STOPPED",
          player |-> AudioPlayer_prepare(p, prepare_ok), started |-> FALSE]
    ELSE IF event_case = "TrackStart"
    THEN [state |-> IF AudioPlayer_start(p, start_ok).started
                    THEN "PLAYING" ELSE "STOPPED",
          player |-> AudioPlayer_start(p, start_ok),
          started |-> AudioPlayer_start(p, start_ok).started]
    ELSE IF event_case \in {"TrackEnd", "TrackAbort"}
    THEN [state |-> "STOPPED", player |-> AudioPlayer_stop(p),
          started |-> FALSE]
    ELSE [state |-> st, player |-> p, started |-> FALSE]

\* the switch on env.event_case(): the state and the player after it, and
\* whether player.start() was called and returned true
handle_envelope(st, p, event_case, prepare_ok, start_ok) ==
    IF event_case = "TrackPrepare"
    THEN [state |-> IF prepare_ok THEN "PREPARED" ELSE "STOPPED",
          player |-> AudioPlayer_prepare(p, prepare_ok), started |-> FALSE]
    ELSE IF event_case = "TrackStart"
    THEN IF st \in {"PREPARED", "WAITING"}
         THEN LET prepared == IF st = "WAITING"
                              THEN AudioPlayer_prepare(p, prepare_ok)
                              ELSE p
              IN  IF st = "WAITING" /\ ~prepare_ok
                  THEN [state |-> "STOPPED", player |-> prepared,
                        started |-> FALSE]
                  ELSE [state |-> IF AudioPlayer_start(prepared, start_ok).started
                                  THEN "PLAYING" ELSE "STOPPED",
                        player |-> AudioPlayer_start(prepared, start_ok),
                        started |-> AudioPlayer_start(prepared, start_ok).started]
         ELSE [state |-> st, player |-> p, started |-> FALSE]
    ELSE IF event_case \in {"TrackEnd", "TrackAbort"}
    THEN [state |-> "STOPPED", player |-> AudioPlayer_stop(p),
          started |-> FALSE]
    ELSE [state |-> st, player |-> p, started |-> FALSE]

\* ctrl_handler: CTRL_C_EVENT or CTRL_BREAK_EVENT
ctrl_handler ==
    /\ wpc \in {"loop", "receive"}
    /\ ~g_shutdown
    /\ g_shutdown' = TRUE
    /\ UNCHANGED <<state, player, wpc, handled, shutdown_polls, filterVars,
                   analyzeVars, mainVars, position_t>>

\* data_callback on the audio thread: the decoder reaches the end of file
data_callback ==
    /\ wpc \in {"loop", "receive"}
    /\ player.started
    /\ ~player.finished_
    /\ player' = [player EXCEPT !.finished_ = TRUE]
    /\ UNCHANGED <<state, g_shutdown, wpc, handled, shutdown_polls,
                   filterVars, analyzeVars, mainVars, position_t>>

\* while (!g_shutdown.load() && state != State::STOPPED)
WinplayLoop ==
    /\ wpc = "loop"
    /\ wpc' = IF ~g_shutdown /\ state # "STOPPED" THEN "receive" ELSE "shutdown"
    /\ UNCHANGED <<state, g_shutdown, player, handled, shutdown_polls,
                   filterVars, analyzeVars, mainVars, position_t>>

\* one iteration of the loop body: receive() returns after a datagram, a
\* timeout (0) or an error (-1); a datagram that parses goes through the
\* switch, one that does not ends the iteration (continue); then the
\* progress update looks at is_finished()
Receive ==
    /\ wpc = "receive"
    /\ \E len \in {-1, 0, 1}, parses \in BOOLEAN, prepare_ok \in BOOLEAN,
          start_ok \in BOOLEAN,
          event_case \in {"TrackPrepare", "TrackStart", "TrackEnd",
                          "TrackAbort", "other"} :
          LET taken == len > 0 /\ parses
              h == IF taken
                   THEN handle_envelope(state, player, event_case,
                                        prepare_ok, start_ok)
                   ELSE [state |-> state, player |-> player,
                         started |-> FALSE]
          IN  /\ taken => Len(handled) < MaxDatagrams
              /\ ~taken => (event_case = "other" /\ prepare_ok /\ start_ok)
              /\ len <= 0 => parses
              /\ state' = IF (len <= 0 \/ parses) /\ h.state = "PLAYING"
                                /\ h.player.finished_
                          THEN "STOPPED" ELSE h.state
              /\ player' = h.player
              /\ handled' =
                    IF taken
                    THEN Append(handled,
                                [event_case |-> event_case, state |-> state,
                                 started |-> h.started,
                                 stopped |-> ~h.player.device_initialized_,
                                 after |-> h.state])
                    ELSE handled
    /\ shutdown_polls' = IF g_shutdown /\ shutdown_polls < MaxPolls
                         THEN shutdown_polls + 1 ELSE shutdown_polls
    /\ wpc' = "loop"
    /\ UNCHANGED <<g_shutdown, filterVars, analyzeVars, mainVars, position_t>>

\* after the loop: if (g_shutdown.load()) player.stop(); receiver.close()
CleanShutdown ==
    /\ wpc = "shutdown"
    /\ player' = IF g_shutdown THEN AudioPlayer_stop(player) ELSE player
    /\ wpc' = "exit"
    /\ UNCHANGED <<state, g_shutdown, handled, shutdown_polls, filterVars,
                   analyzeVars, mainVars, position_t>>
(***************************************************************************)
(* Inputs of parse_event_filter: CSV strings of at most n pieces joined by *)
(* commas; the pieces are names with and without padding, an unknown name, *)
(* a transport name and a blank piece.                                     *)
(***************************************************************************)
RawPieces ==
    { <<"b","e","a","t">>,
      <<" ","o","n","s","e","t","\t">>,
      <<"o","n","s","e","t">>,
      <<"b","o","g","u","s">>,
      <<"t","r","a","c","k",".","e","n","d">>,
      <<" ">> }

RECURSIVE JoinPieces(_)
JoinPieces(ps) ==
    IF ps = <<>> THEN <<>>
    ELSE IF Len(ps) = 1 THEN ps[1]
    ELSE ps[1] \o <<",">> \o JoinPieces(Tail(ps))

CsvStrings(n) ==
    UNION {{JoinPieces(ps) : ps \in [1..k -> RawPieces]} : k \in 0..n}

NoResult == [filter |-> {}, warnings |-> <<"none">>]

\* the harness applies parse_event_filter to both strings
Parse ==
    /\ fpc = "parse"
    /\ resA' = parse_event_filter(csvA)
    /\ resB' = parse_event_filter(csvB)
    /\ fpc' = "done"
    /\ UNCHANGED <<csvA, csvB, analyzeVars, mainVars, position_t, winplayVars>>


(***************************************************************************)
(* Specifications.  Each starts the part of the program it runs and leaves *)
(* the other parts idle.                                                   *)
(***************************************************************************)
\* parse_event_filter applied to two CSV strings
FilterInit ==
    /\ csvA \in CsvStrings(MaxTokens)
    /\ csvB \in CsvStrings(2)
    /\ resA = NoResult
    /\ resB = NoResult
    /\ fpc = "parse"
    /\ apc = "idle"
    /\ cfg = IdleConfig
    /\ pool = EmptyPool
    /\ duration = 0
    /\ timeline = <<>>
    /\ network = EmptyNetwork
    /\ argv = PlainArgs
    /\ pc = "idle"
    /\ now = 0
    /\ g_interrupted = FALSE
    /\ sent = <<>>
    /\ it = 0
    /\ wall_start = 0
    /\ prepare_end = 0
    /\ target = 0
    /\ exit_code = -1
    /\ flag_set_at = [pc |-> "never", it |-> 0, sleeps |-> 0]
    /\ unicast_sent = <<>>
    /\ socket_ = "none"
    /\ unicast_enabled_ = FALSE
    /\ unicast_endpoint_ = ""
    /\ cerr = <<>>
    /\ position_t = 0
    /\ state = "WAITING"
    /\ g_shutdown = FALSE
    /\ player = IdlePlayer
    /\ wpc = "idle"
    /\ handled = <<>>
    /\ shutdown_polls = 0

FilterNext == Parse

SpecFilter == FilterInit /\ [][FilterNext]_vars

\* analyze() for every filter, configuration and Pool content of the bounds
AnalyzeInit ==
    /\ csvA = <<>>
    /\ csvB = <<>>
    /\ resA = NoResult
    /\ resB = NoResult
    /\ fpc = "idle"
    /\ apc = "beat"
    /\ cfg \in AnalyzeConfigs
    /\ pool = EmptyPool
    /\ duration = 0
    /\ timeline = <<>>
    /\ network = EmptyNetwork
    /\ argv = PlainArgs
    /\ pc = "idle"
    /\ now = 0
    /\ g_interrupted = FALSE
    /\ sent = <<>>
    /\ it = 0
    /\ wall_start = 0
    /\ prepare_end = 0
    /\ target = 0
    /\ exit_code = -1
    /\ flag_set_at = [pc |-> "never", it |-> 0, sleeps |-> 0]
    /\ unicast_sent = <<>>
    /\ socket_ = "none"
    /\ unicast_enabled_ = FALSE
    /\ unicast_endpoint_ = ""
    /\ cerr = <<>>
    /\ position_t = 0
    /\ state = "WAITING"
    /\ g_shutdown = FALSE
    /\ player = IdlePlayer
    /\ wpc = "idle"
    /\ handled = <<>>
    /\ shutdown_polls = 0

AnalyzeNext ==
    \/ BeatPass
    \/ OnsetPass
    \/ SilencePass
    \/ LoudnessEnergyPass
    \/ SpectralPass
    \/ MelodyPass
    \/ BuildTimeline
    \/ SortTimeline

SpecAnalyze == AnalyzeInit /\ [][AnalyzeNext]_vars

\* main from its first statement to its return, with the signal handler
Init ==
    /\ csvA = <<>>
    /\ csvB = <<>>
    /\ resA = NoResult
    /\ resB = NoResult
    /\ fpc = "idle"
    /\ apc = "idle"
    /\ cfg = IdleConfig
    /\ pool = EmptyPool
    /\ duration = 0
    /\ timeline = <<>>
    /\ network = EmptyNetwork
    /\ argv \in CliArgs
    /\ pc = "load_config"
    /\ now = 0
    /\ g_interrupted = FALSE
    /\ sent = <<>>
    /\ it = 0
    /\ wall_start = 0
    /\ prepare_end = 0
    /\ target = 0
    /\ exit_code = -1
    /\ flag_set_at = [pc |-> "never", it |-> 0, sleeps |-> 0]
    /\ unicast_sent = <<>>
    /\ socket_ = "none"
    /\ unicast_enabled_ = FALSE
    /\ unicast_endpoint_ = ""
    /\ cerr = <<>>
    /\ position_t = 0
    /\ state = "WAITING"
    /\ g_shutdown = FALSE
    /\ player = IdlePlayer
    /\ wpc = "idle"
    /\ handled = <<>>
    /\ shutdown_polls = 0

Next ==
    \/ LoadConfig
    \/ CallAnalyze
    \/ BeatPass
    \/ OnsetPass
    \/ SilencePass
    \/ LoudnessEnergyPass
    \/ SpectralPass
    \/ MelodyPass
    \/ BuildTimeline
    \/ SortTimeline
    \/ AnalyzeReturn
    \/ AnalyzeThrows
    \/ AnalysisCheck
    \/ TransportOpen
    \/ RunEntry
    \/ PrepareLoop
    \/ PrepareCheck
    \/ PrepareSleep
    \/ Baseline
    \/ LoopTop
    \/ WaitLoop
    \/ WaitCheck
    \/ WaitSleep
    \/ AfterWait
    \/ SendEvent
    \/ EmitCheck
    \/ SignalHandler
    \/ Tick

Spec == Init /\ [][Next]_vars

\* main with every unicast setting and failing sends, without signals and
\* without delays
TransportInit ==
    /\ csvA = <<>>
    /\ csvB = <<>>
    /\ resA = NoResult
    /\ resB = NoResult
    /\ fpc = "idle"
    /\ apc = "idle"
    /\ cfg = IdleConfig
    /\ pool = EmptyPool
    /\ duration = 0
    /\ timeline = <<>>
    /\ network = EmptyNetwork
    /\ argv \in TransportCliArgs
    /\ pc = "load_config"
    /\ now = 0
    /\ g_interrupted = FALSE
    /\ sent = <<>>
    /\ it = 0
    /\ wall_start = 0
    /\ prepare_end = 0
    /\ target = 0
    /\ exit_code = -1
    /\ flag_set_at = [pc |-> "never", it |-> 0, sleeps |-> 0]
    /\ unicast_sent = <<>>
    /\ socket_ = "none"
    /\ unicast_enabled_ = FALSE
    /\ unicast_endpoint_ = ""
    /\ cerr = <<>>
    /\ position_t = 0
    /\ state = "WAITING"
    /\ g_shutdown = FALSE
    /\ player = IdlePlayer
    /\ wpc = "idle"
    /\ handled = <<>>
    /\ shutdown_polls = 0

TransportNext ==
    \/ LoadConfig
    \/ CallAnalyze
    \/ BeatPass
    \/ OnsetPass
    \/ SilencePass
    \/ LoudnessEnergyPass
    \/ SpectralPass
    \/ MelodyPass
    \/ BuildTimeline
    \/ SortTimeline
    \/ AnalyzeReturn
    \/ AnalyzeThrows
    \/ AnalysisCheck
    \/ TransportOpen
    \/ RunEntry
    \/ PrepareLoop
    \/ PrepareCheck
    \/ PrepareSleep
    \/ Baseline
    \/ LoopTop
    \/ WaitLoop
    \/ WaitCheck
    \/ WaitSleep
    \/ AfterWait
    \/ SendEvent
    \/ EmitCheck

SpecTransport == TransportInit /\ [][TransportNext]_vars

\* longest input and longest heartbeat interval of the long runs
MaxLongDuration == 40
MaxLongInterval == 5

\* the heartbeat loop ends: from no time below dur does t += interval
\* leave t where it was
heartbeat_advances(dur, interval) ==
    \A t \in 0..dur : double_round(t) = t => double_add(t, interval) > t

\* (interval, duration) of the long runs: the duration is a double
HeartbeatRuns ==
    {r \in (1..MaxLongInterval) \X (0..MaxLongDuration) :
        double_round(r[2]) = r[2] /\ heartbeat_advances(r[2], r[1])}

\* filters of the long runs, each with the Pool its pass leaves for an
\* input in which it found nothing
HeartbeatInputs ==
    {[filter |-> {"BEAT"}, pool |-> run_beat_pass(EmptyPool, <<>>)],
     [filter |-> {"ONSET"}, pool |-> run_onset_pass(EmptyPool, <<>>)]}

\* analyze() after its passes, for longer inputs and heartbeat intervals
HeartbeatInit ==
    /\ csvA = <<>>
    /\ csvB = <<>>
    /\ resA = NoResult
    /\ resB = NoResult
    /\ fpc = "idle"
    /\ apc = "build"
    /\ \E r \in HeartbeatRuns, i \in HeartbeatInputs :
          /\ cfg = [IdleConfig EXCEPT !.position_interval = r[1],
                                      !.enabled_events = i.filter]
          /\ duration = r[2]
          /\ pool = i.pool
    /\ timeline = <<>>
    /\ network = EmptyNetwork
    /\ argv = PlainArgs
    /\ pc = "idle"
    /\ now = 0
    /\ g_interrupted = FALSE
    /\ sent = <<>>
    /\ it = 0
    /\ wall_start = 0
    /\ prepare_end = 0
    /\ target = 0
    /\ exit_code = -1
    /\ flag_set_at = [pc |-> "never", it |-> 0, sleeps |-> 0]
    /\ unicast_sent = <<>>
    /\ socket_ = "none"
    /\ unicast_enabled_ = FALSE
    /\ unicast_endpoint_ = ""
    /\ cerr = <<>>
    /\ position_t = 0
    /\ state = "WAITING"
    /\ g_shutdown = FALSE
    /\ player = IdlePlayer
    /\ wpc = "idle"
    /\ handled = <<>>
    /\ shutdown_polls = 0

HeartbeatNext ==
    \/ BuildTimeline
    \/ SortTimeline

SpecHeartbeat == HeartbeatInit /\ [][HeartbeatNext]_vars

\* winplay: main from the first test of the loop to its return
WinplayInit ==
    /\ csvA = <<>>
    /\ csvB = <<>>
    /\ resA = NoResult
    /\ resB = NoResult
    /\ fpc = "idle"
    /\ apc = "idle"
    /\ cfg = IdleConfig
    /\ pool = EmptyPool
    /\ duration = 0
    /\ timeline = <<>>
    /\ network = EmptyNetwork
    /\ argv = PlainArgs
    /\ pc = "idle"
    /\ now = 0
    /\ g_interrupted = FALSE
    /\ sent = <<>>
    /\ it = 0
    /\ wall_start = 0
    /\ prepare_end = 0
    /\ target = 0
    /\ exit_code = -1
    /\ flag_set_at = [pc |-> "never", it |-> 0, sleeps |-> 0]
    /\ unicast_sent = <<>>
    /\ socket_ = "none"
    /\ unicast_enabled_ = FALSE
    /\ unicast_endpoint_ = ""
    /\ cerr = <<>>
    /\ position_t = 0
    /\ state = "WAITING"
    /\ g_shutdown = FALSE
    /\ player = IdlePlayer
    /\ wpc = "loop"
    /\ handled = <<>>
    /\ shutdown_polls = 0

WinplayNext ==
    \/ ctrl_handler
    \/ data_callback
    \/ WinplayLoop
    \/ Receive
    \/ CleanShutdown

SpecWinplay == WinplayInit /\ [][WinplayNext]_vars

\* analyze() after its passes for every value of the two intervals
\* (load_config takes any double, negative ones too), the heartbeat loop
\* taken one test at a time
PositionInit ==
    /\ csvA = <<>>
    /\ csvB = <<>>
    /\ resA = NoResult
    /\ resB = NoResult
    /\ fpc = "idle"
    /\ apc = "events"
    /\ \E pi, ci \in (0 - MaxInterval)..MaxInterval :
          cfg = [IdleConfig EXCEPT !.position_interval = pi,
                                   !.continuous_interval = ci,
                                   !.enabled_events = {"ENERGY"}]
    /\ \E n \in 0..MaxFrames :
          pool = run_loudness_energy_pass(EmptyPool, ConstArray(n, <<1>>))
    /\ duration \in 0..MaxDuration
    /\ timeline = <<>>
    /\ network = EmptyNetwork
    /\ argv = PlainArgs
    /\ pc = "idle"
    /\ now = 0
    /\ g_interrupted = FALSE
    /\ sent = <<>>
    /\ it = 0
    /\ wall_start = 0
    /\ prepare_end = 0
    /\ target = 0
    /\ exit_code = -1
    /\ flag_set_at = [pc |-> "never", it |-> 0, sleeps |-> 0]
    /\ unicast_sent = <<>>
    /\ socket_ = "none"
    /\ unicast_enabled_ = FALSE
    /\ unicast_endpoint_ = ""
    /\ cerr = <<>>
    /\ position_t = 0
    /\ state = "WAITING"
    /\ g_shutdown = FALSE
    /\ player = IdlePlayer
    /\ wpc = "idle"
    /\ handled = <<>>
    /\ shutdown_polls = 0

PositionNext ==
    \/ BuildEvents
    \/ PositionStep
    \/ SortTimeline

\* analyze() runs on while it can
SpecPosition == PositionInit /\ [][PositionNext]_vars /\ WF_vars(PositionNext)
\* the set of trimmed, non-blank tokens of a CSV string
TrimmedTokens(csv) ==
    {trim(getline_tokens(csv)[i]) :
        i \in {j \in DOMAIN getline_tokens(csv) :
                  find_first_not_of(getline_tokens(csv)[j]) # npos}}

\* C10: parse_event_filter has set semantics: two CSV strings with the same
\* set of trimmed tokens (repeated or reordered) give the same filter.
C10_SetSemantics ==
    (fpc = "done" /\ TrimmedTokens(csvA) = TrimmedTokens(csvB))
        => resA.filter = resB.filter

\* C10 witness: both strings parsed, the first repeats a token the second
\* has once, the strings differ and the common filter is {BEAT, ONSET}.
C10_Witness ==
    /\ fpc = "done"
    /\ csvA # csvB
    /\ TrimmedTokens(csvA) = TrimmedTokens(csvB)
    /\ Len(getline_tokens(csvA)) > Len(getline_tokens(csvB))
    /\ resA.filter = {"BEAT", "ONSET"}
    /\ resB.filter = {"BEAT", "ONSET"}


(***************************************************************************)
(* Properties of the timeline analyze() returns (SpecAnalyze)              *)
(***************************************************************************)
Types(tl) == {tl[i].serialized.type : i \in DOMAIN tl}

IsSorted(tl) ==
    \A i \in 1..(Len(tl) - 1) : tl[i].timestamp <= tl[i + 1].timestamp

\* the samples of one event type, in timeline order
Stream(type) == SelectSeq(timeline, LAMBDA e : e.serialized.type = type)

\* C4: the first element of the timeline analyze() returns is the
\* TRACK_START event with timestamp 0, whatever else has timestamp 0
C4_FirstIsTrackStart ==
    apc = "done" =>
        /\ timeline[1].serialized.type = "TRACK_START"
        /\ timeline[1].timestamp = 0

\* C5: the last element of the timeline analyze() returns is the TRACK_END
\* event with the measured duration as its timestamp
C5_LastIsTrackEnd ==
    apc = "done" =>
        /\ timeline[Len(timeline)].serialized.type = "TRACK_END"
        /\ timeline[Len(timeline)].timestamp = duration

\* C6: the timeline analyze() returns is sorted non-decreasing by timestamp
C6_Sorted == apc = "done" => IsSorted(timeline)

\* a returned timeline that the sort had to reorder: the beat appended
\* after TRACK_START and before the heartbeats lies behind a heartbeat
C6_Witness ==
    /\ apc = "done"
    /\ cfg.enabled_events = {"BEAT"}
    /\ Len(timeline) >= 4
    /\ ~IsSorted(build_timeline(pool, cfg, duration, <<0>>))
    /\ IsSorted(timeline)
    /\ \E i \in DOMAIN timeline :
         /\ timeline[i].serialized.type = "TRACK_POSITION"
         /\ timeline[i + 1].serialized.type = "BEAT"

\* C7: every timeline event other than TRACK_START and TRACK_END has a
\* timestamp between 0 and the duration
C7_TimestampsInRange ==
    apc = "done" =>
        \A i \in DOMAIN timeline :
            timeline[i].serialized.type \notin {"TRACK_START", "TRACK_END"}
                => /\ 0 <= timeline[i].timestamp
                   /\ timeline[i].timestamp <= duration

\* C8: the timeline holds no event whose type is outside the filter and
\* the three bookkeeping types, as built and as returned
C8_OnlyEnabledTypes ==
    apc \in {"sort", "done"} =>
        Types(timeline) \subseteq
            cfg.enabled_events \cup {"TRACK_START", "TRACK_POSITION", "TRACK_END"}

\* only silence-end is enabled, both silent regions are long enough for
\* all three silence types, and silence-end alone comes out, twice
C8_Witness ==
    /\ apc = "done"
    /\ cfg.enabled_events = {"SILENCE_END"}
    /\ contains(pool, "silence.startFrame")
    /\ contains(pool, "silence.stopFrame")
    /\ Len(Stream("SILENCE_END")) = 2
    /\ Types(timeline) \cap {"SILENCE_START", "GAP"} = {}

\* the throttled continuous streams and the Pool array each samples
StreamKey ==
    [LOUDNESS |-> "loudness.values", ENERGY |-> "energy.values",
     SPECTRAL_CENTROID |-> "spectral.centroid",
     SPECTRAL_FLUX |-> "spectral.flux",
     SPECTRAL_COMPLEXITY |-> "spectral.complexity",
     SPECTRAL_CONTRAST |-> "spectral.contrast",
     SPECTRAL_ROLLOFF |-> "spectral.rolloff", HFC |-> "spectral.hfc",
     MFCC |-> "spectral.mfcc", BANDS_MEL |-> "bands.mel",
     BANDS_BARK |-> "bands.bark", BANDS_ERB |-> "bands.erb",
     CHROMA |-> "tonal.hpcp", DISSONANCE |-> "tonal.dissonance",
     INHARMONICITY |-> "tonal.inharmonicity", PITCH |-> "pitch.values",
     MELODY |-> "melody.pitch"]

\* frame 0 of the stream exists and passes the stream's own gate (pitch:
\* confidence above 0.3; melody: voiced)
FirstFrameQualifies(type) ==
    /\ type \in cfg.enabled_events
    /\ contains(pool, StreamKey[type])
    /\ pool[StreamKey[type]] # <<>>
    /\ type = "PITCH" =>
         /\ contains(pool, "pitch.confidence")
         /\ pool["pitch.confidence"][1] > 3
    /\ type = "MELODY" =>
         /\ pool["melody.pitch"][1] # <<>>
         /\ pool["melody.pitch"][1][1] > 0

\* C9: consecutive samples of a throttled stream are at least the
\* continuous interval apart, frame 0 is emitted when it qualifies, and no
\* sample lies beyond the duration
C9_Throttle ==
    apc \in {"sort", "done"} =>
        \A type \in DOMAIN StreamKey :
            LET s == Stream(type) IN
            /\ \A k \in 1..(Len(s) - 1) :
                 s[k + 1].timestamp - s[k].timestamp >= cfg.continuous_interval
            /\ \A k \in DOMAIN s : s[k].timestamp <= duration
            /\ FirstFrameQualifies(type) => (s # <<>> /\ s[1].timestamp = 0)

\* three frames one sample period apart, interval two: frames 0 and 2 are
\* emitted and frame 1 is skipped
C9_Witness ==
    /\ apc = "done"
    /\ cfg.enabled_events = {"ENERGY"}
    /\ cfg.continuous_interval = 2
    /\ cfg.hop_size = 1
    /\ contains(pool, "energy.values")
    /\ Len(pool["energy.values"]) = 3
    /\ duration >= 2
    /\ [k \in 1..2 |-> Stream("ENERGY")[k].timestamp] = <<0, 2>>
    /\ Len(Stream("ENERGY")) = 2

(***************************************************************************)
(* Properties of Emitter::run inside main (Spec)                           *)
(***************************************************************************)
Serialized(tl) == [i \in DOMAIN tl |-> tl[i].serialized]

\* the datagrams sent after the pre-roll announcement
PlaybackSent ==
    IF cfg.prepare_time > 0 /\ sent # <<>> THEN Tail(sent) ELSE sent

Aborts == {i \in DOMAIN sent : sent[i].type = "TRACK_ABORT"}

\* C1: when the flag is set during the playback loop, before the check
\* that precedes the send of the last timeline event, run sends exactly
\* one TRACK_ABORT with reason "user_interrupt" and nothing after it
C1_AbortOnInterrupt ==
    (/\ pc = "emit_check"
     /\ flag_set_at.pc \in EmitterPlayback \ {"send_event"}
     /\ flag_set_at.it <= Len(timeline))
        => /\ Cardinality(Aborts) = 1
           /\ sent[Len(sent)].type = "TRACK_ABORT"
           /\ sent[Len(sent)].reason = "user_interrupt"

\* C2: whenever run returns from a non-empty timeline the last datagram is
\* TRACK_END, or TRACK_ABORT if the sender was interrupted, and a receiver
\* that got every datagram in order has left its receive loop
C2_StreamTerminates ==
    (pc = "emit_check" /\ timeline # <<>>)
        => /\ sent # <<>>
           /\ sent[Len(sent)].type \in {"TRACK_END", "TRACK_ABORT"}
           /\ sent[Len(sent)].type = "TRACK_ABORT" => g_interrupted
           /\ recv_loop(sent, 1) = "exited"

\* C3: while the flag is not set, the datagrams of the playback are the
\* timeline events before the current one, each once and in order, and run
\* returns only when every timeline event has been sent
C3_AllSentInOrder ==
    (~g_interrupted /\ pc \in EmitterPlayback \cup {"emit_check"})
        => /\ PlaybackSent = SubSeq(Serialized(timeline), 1, it - 1)
           /\ pc = "emit_check" => it = Len(timeline) + 1

\* an uninterrupted run with a countdown returned after waiting for and
\* sending four events
C3_Witness ==
    /\ pc = "emit_check"
    /\ ~g_interrupted
    /\ cfg.prepare_time > 0
    /\ Len(timeline) = 4
    /\ sent = <<prepare_envelope(cfg)>> \o Serialized(timeline)
    /\ sent[Len(sent)].type = "TRACK_END"
    /\ now >= wall_start + duration
    /\ duration > 0

\* the four transport types of the catalog
TransportTypes == {"TRACK_START", "TRACK_END", "TRACK_POSITION", "TRACK_ABORT"}

\* the non-blank tokens of a CSV string that name no selectable type
RejectedTokens(csv) ==
    SelectSeq(getline_tokens(csv),
              LAMBDA t : /\ find_first_not_of(t) # npos
                         /\ \/ trim(t) \notin DOMAIN event_name_map
                            \/ event_name_map[trim(t)] \in TransportTypes)

C12_ExitStatus ==
    pc = "exit" =>
        exit_code = IF ~load_config(argv).ok THEN 1
                    ELSE IF g_interrupted THEN 130
                    ELSE 0

(***************************************************************************)
(* Properties of Transport inside main (SpecTransport)                     *)
(***************************************************************************)
\* C13: every send goes to the multicast endpoint; with unicast enabled the
\* same payloads, one per send and in the same order, go to the unicast
\* endpoint as well, whether or not a multicast send failed; a failed send
\* is logged and not repeated, and the emitter goes on to send exactly the
\* timeline events it would have sent without the failure
C13_DualSendBestEffort ==
    /\ unicast_enabled_ => unicast_sent = sent
    /\ Len(send_errors(cerr)) <= Len(sent) + Len(unicast_sent)
    /\ pc \in EmitterPlayback \cup {"emit_check"}
          => /\ PlaybackSent = SubSeq(Serialized(timeline), 1, it - 1)
             /\ pc = "emit_check" => it = Len(timeline) + 1
    /\ (pc \in EmitterPlayback \cup {"emit_check"} /\ cfg.prepare_time > 0)
          => sent[1] = prepare_envelope(cfg)

\* a run with unicast enabled has ended normally; a multicast send failed,
\* and all datagrams went to both endpoints
C13_Witness ==
    /\ pc = "exit"
    /\ exit_code = 0
    /\ unicast_enabled_
    /\ cerr = <<"send error">>
    /\ Len(timeline) >= 2
    /\ sent = Serialized(timeline)
    /\ unicast_sent = sent

\* C14: when unicast is requested with no target and the gateway lookup
\* finds nothing, the constructor writes exactly one warning and unicast is
\* off for the run: every datagram goes to the multicast endpoint only
C14_LookupFailureDisablesUnicast ==
    (/\ socket_ = "open"
     /\ cfg.enable_unicast
     /\ cfg.unicast_target = ""
     /\ unicast_endpoint_ = "")
        => /\ ~unicast_enabled_
           /\ Len(SelectSeq(cerr, LAMBDA l : l = "unicast warning")) = 1
           /\ cerr[1] = "unicast warning"
           /\ unicast_sent = <<>>
           /\ "unicast send error" \notin {cerr[i] : i \in DOMAIN cerr}
           /\ pc \in EmitterPlayback \cup {"emit_check"}
                 => PlaybackSent = SubSeq(Serialized(timeline), 1, it - 1)

\* after a failed lookup the run has sent a countdown announcement and a
\* whole timeline to the multicast endpoint, and nothing to a unicast one
C14_Witness ==
    /\ pc = "exit"
    /\ exit_code = 0
    /\ cfg.enable_unicast
    /\ cfg.unicast_target = ""
    /\ unicast_endpoint_ = ""
    /\ ~unicast_enabled_
    /\ cerr = <<"unicast warning">>
    /\ Len(sent) >= 3
    /\ sent[1].type = "TRACK_PREPARE"
    /\ unicast_sent = <<>>

(***************************************************************************)
(* Properties of the pre-roll and of cancellation (Spec)                   *)
(***************************************************************************)
\* run has got past its first statements with a countdown to announce
InPreroll ==
    /\ cfg.prepare_time > 0
    /\ timeline # <<>>
    /\ pc \in EmitterPrepare \cup {"baseline"} \cup EmitterPlayback
    /\ socket_ = "open"

\* run has returned, with a countdown configured, from a timeline with events
PrerollReturned ==
    /\ cfg.prepare_time > 0
    /\ timeline # <<>>
    /\ pc \in {"emit_check", "exit"}
    /\ socket_ = "open"

\* C15: with a positive pre-roll and a non-empty timeline the first
\* datagram is the one TRACK_PREPARE, with timestamp minus the countdown;
\* nothing else is sent during the countdown, and playback starts only when
\* the countdown has elapsed; when the flag is found set by the check of
\* the countdown loop, run sends one TRACK_ABORT with reason
\* "user_interrupt" and returns having sent no timeline event
C15_PrerollThenPlayback ==
    /\ (InPreroll \/ PrerollReturned) =>
          /\ sent # <<>>
          /\ sent[1].type = "TRACK_PREPARE"
          /\ sent[1].timestamp = 0 - cfg.prepare_time
          /\ sent[1].val = <<cfg.prepare_time>>
          /\ \A i \in 2..Len(sent) : sent[i].type # "TRACK_PREPARE"
          /\ prepare_end >= cfg.prepare_time
    /\ (InPreroll /\ pc \in EmitterPrepare) => Len(sent) = 1
    /\ (InPreroll /\ pc \in EmitterPlayback) =>
          /\ wall_start >= prepare_end
          /\ now >= prepare_end
    /\ (PrerollReturned /\ it = 0) =>
          /\ g_interrupted
          /\ Len(sent) = 2
          /\ sent[2].type = "TRACK_ABORT"
          /\ sent[2].reason = "user_interrupt"
          /\ sent[2].timestamp = 0 - cfg.prepare_time
    /\ (PrerollReturned
          /\ flag_set_at.pc \in {"transport", "run", "baseline"}
                                  \cup EmitterPrepare) =>
          /\ Len(sent) = 2
          /\ sent[2].type = "TRACK_ABORT"
          /\ sent[2].reason = "user_interrupt"

\* the flag was set while the countdown loop was running; its check found
\* it, and run has sent the announcement and the abort and has returned
\* before the first event
C15_Witness ==
    /\ pc = "emit_check"
    /\ cfg.prepare_time > 0
    /\ Len(timeline) >= 2
    /\ flag_set_at.pc = "prepare_check"
    /\ it = 0
    /\ sent = <<prepare_envelope(cfg), abort_envelope(0 - cfg.prepare_time)>>

\* the timeline events among the datagrams
TimelineSent ==
    SelectSeq(sent, LAMBDA d : d.type \notin {"TRACK_PREPARE", "TRACK_ABORT"})

\* the wait of the playback loop, up to the check that follows it
InWait == {"wait_loop", "wait_check", "wait_sleep", "after_wait"}

\* once the flag is set: the event whose wait was in progress is not sent,
\* nor any later one, nothing follows a TRACK_ABORT, and at most one sleep
\* is finished before run stops
CancellationBounded ==
    g_interrupted =>
        /\ flag_set_at.sleeps <= 1
        /\ flag_set_at.pc \in InWait \cup {"loop_top"}
              => Len(TimelineSent) = flag_set_at.it - 1
        /\ flag_set_at.pc = "send_event"
              => Len(TimelineSent) <= flag_set_at.it
        /\ flag_set_at.pc \in EmitterPrepare \cup {"baseline"}
              => TimelineSent = <<>>
        /\ \A i \in DOMAIN sent :
              sent[i].type = "TRACK_ABORT" => i = Len(sent)

\* a sleep of either wait loop lasts 100 ms (sample_rate / 10 periods) at
\* most, and the step after a sleep sends nothing: it is the loop test
SleepBounded ==
    pc \in {"prepare_sleep", "wait_sleep"} /\ pc' # pc
        => /\ 10 * (now' - now) <= cfg.sample_rate
           /\ pc' \in {"prepare_loop", "wait_loop"}
           /\ sent' = sent

\* between a sleep and a send the flag is tested: what the two loops send
\* once the flag is set is the TRACK_ABORT, but for the event whose test
\* after the wait had already been passed
SendAfterCheck ==
    (/\ sent' # sent
     /\ g_interrupted
     /\ pc \in (EmitterPrepare \cup EmitterPlayback) \ {"send_event"})
        => sent'[Len(sent')].type = "TRACK_ABORT"

C17_NoNetworkBeforeAnalysis ==
    /\ pc \in {"load_config", "analyze", "analysis_check", "transport"}
          => /\ socket_ = "none"
             /\ sent = <<>>
             /\ unicast_sent = <<>>
    /\ (socket_ = "open" \/ sent # <<>> \/ unicast_sent # <<>>)
          => /\ load_config(argv).ok
             /\ apc = "done"
             /\ socket_ = "open"
    /\ (~load_config(argv).ok
          \/ flag_set_at.pc \in {"analyze", "analysis_check"})
          => /\ socket_ = "none"
             /\ sent = <<>>
             /\ unicast_sent = <<>>
             /\ pc \in {"load_config", "analyze", "analysis_check", "exit"}

\* the signal arrived during the analysis; analyze returned a timeline and
\* main returned 130 with no Transport and nothing sent
C17_Witness ==
    /\ pc = "exit"
    /\ exit_code = 130
    /\ flag_set_at.pc = "analyze"
    /\ apc = "done"
    /\ Len(timeline) >= 2
    /\ socket_ = "none"
    /\ sent = <<>>

(***************************************************************************)
(* Properties of the bookkeeping events (SpecHeartbeat)                    *)
(***************************************************************************)
\* the timestamps of the timeline events of one type, in timeline order
TimestampsOf(type) ==
    LET evs == SelectSeq(timeline, LAMBDA e : e.serialized.type = type)
    IN  [i \in DOMAIN evs |-> evs[i].timestamp]

\* the multiples k * position_interval, k >= 1, below the duration
HeartbeatTimes ==
    {k * cfg.position_interval : k \in 1..duration}
        \cap 1..(duration - 1)

SilenceTypes == {"SILENCE_START", "SILENCE_END", "GAP"}

\* the silence and gap events of the timeline, in timeline order
SilenceEvents ==
    SelectSeq(timeline, LAMBDA e : e.serialized.type \in SilenceTypes)

\* the events of the silent region from t_start to t_end that the filter
\* lets through
RegionEvents(t_start, t_end) ==
    SelectSeq(
        <<TimelineEvent(t_start, Envelope("SILENCE_START", t_start, <<>>)),
          TimelineEvent(t_end, Envelope("SILENCE_END", t_end, <<>>)),
          TimelineEvent(t_start, Envelope("GAP", t_start, <<t_end - t_start>>))>>,
        LAMBDA e : e.serialized.type \in cfg.enabled_events)

\* what the claim lets the timeline hold: the events of the leading region
\* when startTime > 0.05 s, then those of the trailing region when
\* duration - stopTime > 0.05 s
ExpectedSilenceEvents ==
    IF ~contains(pool, "silence.startFrame")
          \/ ~contains(pool, "silence.stopFrame")
    THEN <<>>
    ELSE IF pool["silence.startFrame"] = <<>> \/ pool["silence.stopFrame"] = <<>>
    THEN <<>>
    ELSE LET starts == pool["silence.startFrame"]
             stops == pool["silence.stopFrame"]
             startTime == starts[Len(starts)] * cfg.hop_size
             stopTime == stops[Len(stops)] * cfg.hop_size
         IN  (IF 20 * startTime > cfg.sample_rate
              THEN RegionEvents(0, startTime) ELSE <<>>)
             \o (IF 20 * (duration - stopTime) > cfg.sample_rate
                 THEN RegionEvents(stopTime, duration) ELSE <<>>)

CountIn(seq, e) == Cardinality({i \in DOMAIN seq : seq[i] = e})

\* C19: a leading silence longer than 0.05 s gives silence-start at 0,
\* silence-end at startTime and a gap of startTime at 0; a trailing silence
\* longer than 0.05 s gives silence-start at stopTime, silence-end at the
\* duration and a gap of duration - stopTime at stopTime; each event only
\* when its type is in the filter, and the timeline holds no other silence
\* or gap event, as built and as returned
C19_SilenceRegions ==
    /\ apc = "sort" => SilenceEvents = ExpectedSilenceEvents
    /\ apc = "done" =>
          /\ Len(SilenceEvents) = Len(ExpectedSilenceEvents)
          /\ \A i \in DOMAIN SilenceEvents :
                CountIn(SilenceEvents, SilenceEvents[i])
                    = CountIn(ExpectedSilenceEvents, SilenceEvents[i])

\* all three types are enabled; the leading silence lasts 0.1 s and gives
\* its three events, the trailing one lasts exactly 0.05 s and gives none
C19_Witness ==
    /\ apc = "done"
    /\ SilenceTypes \subseteq cfg.enabled_events
    /\ contains(pool, "silence.startFrame")
    /\ contains(pool, "silence.stopFrame")
    /\ pool["silence.startFrame"] = <<2>>
    /\ pool["silence.stopFrame"] = <<2>>
    /\ duration = 3
    /\ {SilenceEvents[i] : i \in DOMAIN SilenceEvents} =
          {TimelineEvent(0, Envelope("SILENCE_START", 0, <<>>)),
           TimelineEvent(2, Envelope("SILENCE_END", 2, <<>>)),
           TimelineEvent(0, Envelope("GAP", 0, <<2>>))}
    /\ Len(SilenceEvents) = 3

\* ---- C20 ----
\* the connections that leave the output port of an operator of a pass
WiresFrom(a, port) ==
    {w \in network.wires : w.pass = a.pass /\ w.op = a.name /\ w.port = port}

\* the Pool keys some connection writes
KeysWired == {w.to : w \in {x \in network.wires : x.kind = "pool"}}

\* every connection leaves an output port of an operator the pass created
\* and, when it feeds an operator, one the same pass created
WiresAttached ==
    \A w \in network.wires :
        /\ \E a \in network.algos :
              a.pass = w.pass /\ a.name = w.op /\ w.port \in OutputPorts[a.type]
        /\ w.kind = "op" =>
              \E a \in network.algos : a.pass = w.pass /\ a.name = w.to

\* C20: for every filter, in every pass that has run, each output port of
\* each operator the pass created is connected to at least one consumer
\* (an operator of the pass, a Pool key or the discard sink), each Pool key
\* is written by exactly one operator output and nothing else is in the
\* Pool, and once the first pass is over exactly one pass has computed the
\* duration: the beat pass or the duration-only pass.
C20_EveryOutputConnected ==
    /\ \A a \in network.algos :
          \A port \in OutputPorts[a.type] : WiresFrom(a, port) # {}
    /\ WiresAttached
    /\ \A key \in KeysWired :
          Cardinality({w \in network.wires : w.kind = "pool" /\ w.to = key}) = 1
    /\ DOMAIN pool \subseteq KeysWired
    /\ apc \in {"onset", "silence", "loudness", "spectral", "melody", "build",
                "sort", "done", "crashed"}
          => /\ Len(network.duration_by) = 1
             /\ network.duration_by[1] = "beat"
                   <=> needs_any(cfg.enabled_events,
                                 {"BEAT", "TEMPO_CHANGE", "DOWNBEAT"})

\* analyze() has returned for a filter that asks for the filtered peaks only:
\* the duration-only pass ran, and the spectral pass discarded both outputs
\* of spectralPeaks
C20_Witness ==
    /\ apc = "done"
    /\ cfg.enabled_events = {"DISSONANCE"}
    /\ network.duration_by = <<"duration">>
    /\ ToNowhere("spectral", "spectralPeaks", "frequencies") \in network.wires
    /\ ToNowhere("spectral", "spectralPeaks", "magnitudes") \in network.wires
    /\ ToNowhere("duration", "loader", "audio") \in network.wires
    /\ contains(pool, "tonal.dissonance")

\* ---- C22 ----
Prepares == {i \in DOMAIN sent : sent[i].type = "TRACK_PREPARE"}

\* C22: in any run of Emitter::run, whenever the flag is set, at most one
\* TRACK_ABORT and at most one TRACK_PREPARE are among the datagrams sent,
\* and a TRACK_ABORT is the last datagram sent
C22_AtMostOneAbort ==
    /\ Cardinality(Aborts) <= 1
    /\ Cardinality(Prepares) <= 1
    /\ \A i \in Aborts : i = Len(sent)

\* run returned after an interruption of the countdown: the announcement
\* and the abort are all that was sent
C22_Witness ==
    /\ pc = "exit"
    /\ flag_set_at.pc \in EmitterPrepare
    /\ Len(sent) = 2
    /\ sent[1].type = "TRACK_PREPARE"
    /\ sent[2].type = "TRACK_ABORT"

\* ---- C23 ----
\* positions of the wait for the current event: from the computation of its
\* target to the check that follows the wait
InProgress == {"wait_loop", "wait_check", "wait_sleep", "after_wait"}

\* C23: when the flag is set during the wait for timeline event k, an
\* event that is not the last, and run has returned, the TRACK_ABORT that
\* was sent carries the timestamp of event k
C23_AbortCarriesInProgressTimestamp ==
    (/\ pc = "emit_check"
     /\ flag_set_at.pc \in InProgress
     /\ flag_set_at.it < Len(timeline))
        => \A i \in Aborts :
              sent[i].timestamp = timeline[flag_set_at.it].timestamp

\* ---- C24 ----
\* the target of the event in progress is the baseline plus its timestamp
TargetFromBaseline ==
    pc \in InProgress \cup {"send_event"}
        => target = wall_start + timeline[it].timestamp

\* once sampled, the baseline is not assigned again
BaselineFixed == pc \in EmitterPlayback \cup {"emit_check"} => wall_start' = wall_start

\* a timeline event is not sent before its time
NotSentEarly ==
    (pc = "send_event" /\ sent' # sent)
        => now >= wall_start + timeline[it].timestamp

\* an event whose time has come is not waited for: the wait loop is left
\* and no sleep takes time
NoSleepWhenLate ==
    /\ (pc = "wait_loop" /\ now >= target /\ pc' # pc) => pc' = "after_wait"
    /\ (pc = "wait_sleep" /\ pc' = "wait_loop" /\ now >= target) => now' = now

\* C24: the playback baseline is sampled once and never modified; the
\* target of every event is the baseline plus the event's timestamp,
\* whatever the delay of the events before it; no timeline event is sent
\* at a time earlier than its target, and an event whose target has passed
\* is sent without sleeping.
C24_TimingFidelity ==
    []TargetFromBaseline /\ [][BaselineFixed /\ NotSentEarly /\ NoSleepWhenLate]_vars

\* the second event was sent late, and the third, a later one, is about to
\* be sent past its own target
C24_Witness ==
    /\ pc = "send_event"
    /\ it = 3
    /\ ~g_interrupted
    /\ timeline[3].timestamp > timeline[2].timestamp
    /\ now > target
    /\ target > wall_start
    /\ cfg.prepare_time = 0
    /\ Len(sent) = 2

\* ---- C30 ----
Ends == {i \in DOMAIN sent : sent[i].type = "TRACK_END"}

\* status 0: TRACK_END was the last datagram and no TRACK_ABORT was sent
ExitZeroAfterEnd ==
    exit_code = 0
        => /\ sent # <<>>
           /\ sent[Len(sent)].type = "TRACK_END"
           /\ Aborts = {}

\* status 130 once the transport was opened: a TRACK_ABORT was sent and
\* TRACK_END was not
ExitInterruptedAfterAbort ==
    (exit_code = 130 /\ socket_ = "open") => (Aborts # {} /\ Ends = {})

\* C30: if the process exits with status 0 then TRACK_END was the last
\* datagram sent and no TRACK_ABORT was sent; if it exits with status 130
\* after the emission phase began then a TRACK_ABORT was sent and
\* TRACK_END was not
C30_ExitStatusAgreesWithStream ==
    ExitZeroAfterEnd /\ ExitInterruptedAfterAbort

\* ---- C25 ----
\* the order a stable sort by timestamp puts tl in: among equal timestamps
\* the earlier inserted comes first
StableOrder(tl) ==
    CHOOSE o \in SortedOrders(tl, DOMAIN tl) :
        \A i, j \in DOMAIN o :
            (i < j /\ tl[o[i]].timestamp = tl[o[j]].timestamp) => o[i] < o[j]

\* C25: the final sort of the timeline is stable: the timeline analyze()
\* returns is the built timeline in timestamp order with any two events of
\* equal timestamp in the order in which the builders inserted them
C25_SortIsStable ==
    [][(apc = "sort" /\ apc' = "done")
          => timeline' = [k \in DOMAIN timeline |->
                             timeline[StableOrder(timeline)[k]]]]_vars

\* ---- C26 ----
\* the windows (1-based) whose label differs from the label of the window
\* before, the first window counting as one
Transitions(chords) ==
    {i \in DOMAIN chords : i = 1 \/ chords[i] # chords[i - 1]}

\* the transitions at which the time of the window is within the track
TransitionsInTrack ==
    {i \in Transitions(pool["tonal.chords"]) :
        frame_to_time(i - 1, cfg.hop_size) <= duration}

\* the CHORD_CHANGE events are those of the windows W, one each, with the
\* label and the strength of the window, and no two in a row with a label
ChordChangesAt(W) ==
    LET cc == Stream("CHORD_CHANGE")
    IN  /\ Len(cc) = Cardinality(W)
        /\ \A i \in W :
              \E k \in DOMAIN cc :
                  /\ cc[k].timestamp = frame_to_time(i - 1, cfg.hop_size)
                  /\ cc[k].serialized.val =
                        <<pool["tonal.chords"][i], pool["tonal.chordStrength"][i]>>
        /\ \A k \in 1..(Len(cc) - 1) :
              cc[k].serialized.val[1] # cc[k + 1].serialized.val[1]

ChordsAnalyzed ==
    /\ apc = "done"
    /\ "CHORD_CHANGE" \in cfg.enabled_events
    /\ contains(pool, "tonal.chords")

Voiced(i) ==
    /\ pool["pitch.confidence"][i] > 5
    /\ pool["pitch.values"][i] > 0

\* frames j < i are consecutive voiced estimates: no voiced one in between
ConsecutiveVoiced(j, i) ==
    /\ j < i
    /\ Voiced(j)
    /\ Voiced(i)
    /\ \A k \in (j + 1)..(i - 1) : ~Voiced(k)

\* C27: a pitch-change event is emitted at frame i only when frame i and
\* the estimate it is compared against are consecutive voiced estimates
\* that both have confidence above 0.5 and whose frequency ratio is above
\* 1.06 or below 0.94; the event carries the earlier frequency as from_hz
\* and the later as to_hz
C27_PitchChangeBetweenVoiced ==
    (apc = "done" /\ "PITCH_CHANGE" \in cfg.enabled_events)
        => \A k \in DOMAIN Stream("PITCH_CHANGE") :
              LET e == Stream("PITCH_CHANGE")[k]
                  i == (e.timestamp \div cfg.hop_size) + 1
                  from_hz == e.serialized.val[1]
                  to_hz == e.serialized.val[2]
              IN  /\ to_hz = pool["pitch.values"][i]
                  /\ 100 * to_hz > 106 * from_hz \/ 100 * to_hz < 94 * from_hz
                  /\ \E j \in 1..(i - 1) :
                        /\ ConsecutiveVoiced(j, i)
                        /\ pool["pitch.values"][j] = from_hz

\* ---- C28 ----
\* C28: for every segmentation vector the structural-change detector
\* returns, of length 0, 1 and 2 too, build_segmentation_events reads
\* interior entries only and never an index out of range, every
\* segment-boundary event it emits has 0 < t < duration, and it emits none
\* when fewer than 10 cepstral frames exist
C28_SegmentationReadsInterior ==
    /\ apc # "crashed"
    /\ apc = "done" =>
          /\ \A k \in DOMAIN Stream("SEGMENT_BOUNDARY") :
                /\ Stream("SEGMENT_BOUNDARY")[k].timestamp > 0
                /\ Stream("SEGMENT_BOUNDARY")[k].timestamp < duration
          /\ ~runs_sbic(pool, cfg.enabled_events)
                => Stream("SEGMENT_BOUNDARY") = <<>>

\* ---- C21 ----
\* playback was started by TrackStart envelopes received in WAITING or
\* PREPARED only
StartedByTrackStart ==
    /\ \A i \in DOMAIN handled :
          handled[i].started
              => /\ handled[i].event_case = "TrackStart"
                 /\ handled[i].state \in {"WAITING", "PREPARED"}
    /\ player.started => \E i \in DOMAIN handled : handled[i].started

\* a TrackEnd or TrackAbort, in whatever state it was received, stopped the
\* player, moved to STOPPED and is the last envelope handled
EndOrAbortStops ==
    \A i \in DOMAIN handled :
        handled[i].event_case \in {"TrackEnd", "TrackAbort"}
            => /\ handled[i].stopped
               /\ handled[i].after = "STOPPED"
               /\ i = Len(handled)

\* in STOPPED no receive() is called
NoReceiveWhenStopped == wpc = "receive" => state # "STOPPED"

\* after the flag is set at most the receive() in progress returns
ShutdownWithinOneReceive ==
    /\ shutdown_polls <= 1
    /\ (g_shutdown /\ shutdown_polls = 1) => wpc # "receive"

\* C21: for any sequence of received envelopes, playback is started only by
\* a TrackStart received in WAITING or PREPARED; a TrackEnd or TrackAbort
\* received in any state stops the player and moves to STOPPED, after which
\* the loop exits and no further datagram is processed; once the shutdown
\* flag is set the loop ends after at most the one receive() that was in
\* progress, which returns within the receive timeout
C21_ReceiverStateMachine ==
    /\ [](StartedByTrackStart /\ EndOrAbortStops /\ NoReceiveWhenStopped
            /\ ShutdownWithinOneReceive)
    /\ [][state = "STOPPED" => (handled' = handled /\ state' = state)]_vars

\* a whole session: prepared, started from PREPARED, ended while playing,
\* and main has left the loop
C21_Witness ==
    /\ wpc = "exit"
    /\ ~g_shutdown
    /\ Len(handled) = 3
    /\ handled[1].event_case = "TrackPrepare"
    /\ handled[2].event_case = "TrackStart"
    /\ handled[2].state = "PREPARED"
    /\ handled[2].started
    /\ handled[3].event_case = "TrackEnd"
    /\ handled[3].state = "PLAYING"
    /\ state = "STOPPED"

\* ---- C29 ----
\* C29: timeline construction in analyze() terminates with a finite
\* timeline for every value of position_interval and continuous_interval,
\* zero and negative ones too, every finite duration and every Pool
\* content: analyze() reaches its return
C29_ConstructionTerminates == <>(apc = "done")
====
